---- MODULE Spec2Model ----
(***************************************************************************)
(* A model of the log-structured key-value store of project-3              *)
(* (src/project-3/src/engines/kvs.rs): segment files of JSON command       *)
(* records, the in-memory index, the per-segment length counters,          *)
(* rotation, compaction and recovery.  The in-memory store of project-1    *)
(* is modelled beside it as the reference the store is compared with.      *)
(***************************************************************************)
EXTENDS Integers, Sequences, FiniteSets, TLC

(***************************************************************************)
(* Constants and bounds                                                    *)
(***************************************************************************)

\* Commands per segment file.  project-3 sets 1024 * 10; the model takes the
\* value of the project-2 variant of the same store, which keeps rotation
\* within reach of a short run.
SHORT_NUM_COMMAND_PER_FILE == 4

\* A value the constant may be tuned to: the least with which a file over
\* the threshold still holds two live commands (4 of 6 are garbage).
TUNED_NUM_COMMAND_PER_FILE == 6

\* The value of the constant in the build that runs: a run starts with one
\* of the two values above and keeps it.
VARIABLE max_per_file

MAX_NUM_COMMAND_PER_FILE == max_per_file

\* COMPACTION_THRESHOLD = 0.618, as the fraction ThresholdNum / ThresholdDen.
ThresholdNum == 618
ThresholdDen == 1000

\* set and remove are offered while the active term is below MaxTerm.
MaxTerm == 3

\* The same limit for the runs that start on a directory with a foreign entry.
MaxForeignTerm == 1

\* The same limit for the runs in which a command on disk gets damaged.
MaxCorruptTerm == 2

\* `kvs set` and `kvs rm` are run while the term open recovers is below
\* MaxCliTerm.
MaxCliTerm == 3

\* In the runs in which a command on disk is overwritten under the open
\* store, set and remove are offered while the term is below MaxDamagedTerm.
MaxDamagedTerm == 2

\* The counters the threshold test is tried on have len up to MaxCount.
MaxCount == 500

\* The file named 0 that open may find holds up to MaxZeroLen commands.
MaxZeroLen == 2

\* In the runs without remove, set is offered while the term is below
\* MaxSetTerm.
MaxSetTerm == 4

\* In the runs that follow the positions of the readers, set and remove are
\* offered while the term is below MaxReadTerm.
MaxReadTerm == 2

\* In the runs in which the process may stop inside compaction, set and
\* remove are offered while the term is below MaxStopTerm, and the process
\* stops at one of the points 0..MaxStop.
MaxStopTerm == 3
MaxStop == 2

\* The number of set and remove calls of the rotation runs and of the
\* overwrite runs.
MaxRotationCalls == 5
MaxOverwriteCalls == 11

Keys == {"k1", "k2", "k3"}
Values == {"a", "bb"}

\* The (key, value) pairs set is called with: every key, and two values of
\* different length for one of them.
SetInputs == {<<"k1", "a">>, <<"k1", "bb">>, <<"k2", "a">>, <<"k3", "a">>}

\* The KEY and VALUE arguments of the command line runs.
CliKeys == {"k1", "k2"}
CliSetInputs == {<<"k1", "a">>, <<"k1", "bb">>, <<"k2", "a">>}

\* Option::None of a get, and the value slot of a Remove command.
None == "None"

\* The keys of the rotation runs: one more than a segment file takes.
RotationKeys == {"k1", "k2", "k3", "k4", "k5"}

AllKeys == Keys \cup RotationKeys

\* The orders in which a HashMap of keys may be iterated.
KeyOrders ==
    {o \in [1..Cardinality(AllKeys) -> AllKeys] :
        \A i, j \in DOMAIN o : i # j => o[i] # o[j]}

(***************************************************************************)
(* Maps with a finite domain                                               *)
(***************************************************************************)

Put(f, k, v) == (k :> v) @@ f

Del(f, k) == [x \in DOMAIN f \ {k} |-> f[x]]

EmptyMap == [x \in {} |-> 0]

(***************************************************************************)
(* Command records and their JSON encoding                                 *)
(***************************************************************************)

SetCommand(key, value) == [cmd |-> "Set", key |-> key, value |-> value]

RemoveCommand(key) == [cmd |-> "Remove", key |-> key, value |-> None]

\* Bytes of serde_json's encoding: {"Set":{"key":"k","value":"v"}} and
\* {"Remove":{"key":"k"}}.
ByteLen(c) ==
    IF c.cmd = "Set" THEN 29 + Len(c.key) + Len(c.value) ELSE 21 + Len(c.key)

\* A segment file is the sequence of the commands written to it; EndOffset
\* is the byte offset just after its first n commands.
RECURSIVE EndOffset(_, _)
EndOffset(file, n) ==
    IF n = 0 THEN 0 ELSE EndOffset(file, n - 1) + ByteLen(file[n])

FileLen(file) == EndOffset(file, Len(file))

\* Decoding the bytes [head, tail) of a file: the command that occupies
\* exactly that range, or a decoding error.
DecodeErr == [cmd |-> "Err", key |-> None, value |-> None]

from_slice(file, head, tail) ==
    LET hits == {i \in 1..Len(file) :
                    EndOffset(file, i - 1) = head /\ EndOffset(file, i) = tail}
    IN  IF hits = {} THEN DecodeErr ELSE file[CHOOSE i \in hits : TRUE]

(***************************************************************************)
(* LengthCount                                                             *)
(***************************************************************************)

NewLengthCount == [len |-> 0, len_garbage |-> 0]

effective_len(c) == c.len - c.len_garbage

increase_len(c) == [c EXCEPT !.len = @ + 1]

\* Fault: a superseded command is counted as garbage twice.
increase_garbage_len_twice(c) == [c EXCEPT !.len_garbage = @ + 2]

\* Fault: the garbage of a superseded command is not counted.
increase_garbage_len_lost(c) == c

increase_garbage_len(c) == [c EXCEPT !.len_garbage = @ + 1]

\* Fault: the command is counted, its garbage is not.
increase_len_without_garbage(c) == [c EXCEPT !.len = @ + 1]

increase_len_with_garbage(c) == [c EXCEPT !.len = @ + 1, !.len_garbage = @ + 1]

\* Fault: the comparison is not strict.
OverThreshold_or_equal(c) ==
    IF c.len = 0 THEN c.len_garbage > 0
    ELSE c.len_garbage * ThresholdDen >= ThresholdNum * c.len

\* garbage_rate() > COMPACTION_THRESHOLD.  The rate is an f64 division:
\* 0/0 is NaN, which compares false, and g/0 with g > 0 is +inf.
OverThreshold(c) ==
    IF c.len = 0 THEN c.len_garbage > 0
    ELSE c.len_garbage * ThresholdDen > ThresholdNum * c.len

(***************************************************************************)
(* The store as a record, for the operations to work on                    *)
(***************************************************************************)

\* The fields of KvStore, the directory `disk` (file name |-> commands), the
\* outcome `err` of the operation under way ("ok", an Err, or "panic") and,
\* for the properties, `events`: the rotations <<"break", term>>, the
\* compactions entered <<"start", term, the store's term and
\* current_log_len at that moment>> and the
\* compactions that failed their check <<"bug", ...>> and the
\* completed compactions <<"compaction", term, number of commands rewritten,
\* counter of the term before the rewriting, counter after it>> of the
\* operation under way.
Panic(s) == [s EXCEPT !.err = "panic"]

\* Fault: pos starts at 0, without the seek to the end of the file.
NewWriter_unsought(disk, id) == [file |-> id, pos |-> 0]

\* CursorBufWriter::new on a file opened with create + append.
NewWriter(disk, id) ==
    [file |-> id, pos |-> IF id \in DOMAIN disk THEN FileLen(disk[id]) ELSE 0]

CreateFile(disk, id) == IF id \in DOMAIN disk THEN disk ELSE Put(disk, id, <<>>)

\* Fault: the record count is not restarted.
break_keeping_count(s) ==
    LET t == s.term + 1
        d == CreateFile(s.disk, t)
    IN  [s EXCEPT !.term = t,
                  !.disk = d,
                  !.writer = NewWriter(d, t),
                  !.readers = @ \cup {t},
                  !.log_lengths = Put(@, t, NewLengthCount),
                  !.events = Append(@, <<"break", t>>)]

\* Fault: no reader is kept for the new file.
break_without_reader(s) ==
    LET t == s.term + 1
        d == CreateFile(s.disk, t)
    IN  [s EXCEPT !.term = t,
                  !.disk = d,
                  !.writer = NewWriter(d, t),
                  !.log_lengths = Put(@, t, NewLengthCount),
                  !.current_log_len = 0,
                  !.events = Append(@, <<"break", t>>)]

break_to_new_log_file(s) ==
    LET t == s.term + 1
        d == CreateFile(s.disk, t)
    IN  [s EXCEPT !.term = t,
                  !.disk = d,
                  !.writer = NewWriter(d, t),
                  !.readers = @ \cup {t},
                  !.log_lengths = Put(@, t, NewLengthCount),
                  !.current_log_len = 0,
                  !.events = Append(@, <<"break", t>>)]

\* Fault: pos is not advanced by the bytes written.
to_writer_keeping_pos(s, c) ==
    LET f == s.writer.file
    IN  [s EXCEPT !.disk = IF f \in DOMAIN @
                           THEN [@ EXCEPT ![f] = Append(@, c)] ELSE @]

\* serde_json::to_writer followed by flush: the bytes reach the file the
\* writer holds (nothing, once that file is unlinked) and pos advances.
to_writer(s, c) ==
    LET f == s.writer.file
    IN  [s EXCEPT !.disk = IF f \in DOMAIN @
                           THEN [@ EXCEPT ![f] = Append(@, c)] ELSE @,
                  !.writer.pos = @ + ByteLen(c)]

(***************************************************************************)
(* set, remove and compaction                                              *)
(***************************************************************************)

\* Fault: one command too many before the file is left.
log_is_full_late(s) == s.current_log_len > MAX_NUM_COMMAND_PER_FILE

\* The test of set and remove for leaving the current log file.
log_is_full(s) == s.current_log_len >= MAX_NUM_COMMAND_PER_FILE

\* Fault: the garbage of a key is counted in the active segment, wherever
\* the superseded command is.
set_count_garbage_to_active(s, key) ==
    IF key \in DOMAIN s.map /\ s.term \in DOMAIN s.log_lengths
    THEN LET c == increase_len_with_garbage(s.log_lengths[s.term])
         IN  [st |-> [s EXCEPT !.log_lengths[s.term] = c],
              compaction_term |-> IF OverThreshold(c) THEN s.term ELSE 0]
    ELSE LET c == IF s.term \in DOMAIN s.log_lengths
                  THEN s.log_lengths[s.term] ELSE NewLengthCount
         IN  [st |-> [s EXCEPT !.log_lengths = Put(@, s.term, increase_len(c))],
              compaction_term |-> 0]

\* Fault: a Set that replaces one of the same segment is counted without its
\* garbage.
set_count_without_garbage(s, key) ==
    IF key \in DOMAIN s.map /\ s.map[key].term # s.term
    THEN LET old_term == s.map[key].term IN
         IF old_term \notin DOMAIN s.log_lengths
            \/ s.term \notin DOMAIN s.log_lengths
         THEN [st |-> Panic(s), compaction_term |-> 0]
         ELSE LET o == increase_garbage_len(s.log_lengths[old_term])
              IN  [st |-> [s EXCEPT !.log_lengths[old_term] = o,
                                    !.log_lengths[s.term] = increase_len(@)],
                   compaction_term |-> IF OverThreshold(o) THEN old_term ELSE 0]
    ELSE LET c == IF s.term \in DOMAIN s.log_lengths
                  THEN s.log_lengths[s.term] ELSE NewLengthCount
         IN  [st |-> [s EXCEPT !.log_lengths = Put(@, s.term, increase_len(c))],
              compaction_term |-> 0]

\* The length counting of set: the store after it and the term to compact
\* (0 for none).
set_count(s, key) ==
    IF key \in DOMAIN s.map
    THEN LET old_term == s.map[key].term IN
         IF old_term = s.term
         THEN IF s.term \notin DOMAIN s.log_lengths
              THEN [st |-> Panic(s), compaction_term |-> 0]
              ELSE LET c == increase_len_with_garbage(s.log_lengths[s.term])
                   IN  [st |-> [s EXCEPT !.log_lengths[s.term] = c],
                        compaction_term |-> IF OverThreshold(c) THEN s.term ELSE 0]
         ELSE IF old_term \notin DOMAIN s.log_lengths
              THEN [st |-> Panic(s), compaction_term |-> 0]
              ELSE LET o  == increase_garbage_len(s.log_lengths[old_term])
                       s1 == [s EXCEPT !.log_lengths[old_term] = o]
                   IN  IF s.term \notin DOMAIN s.log_lengths
                       THEN [st |-> Panic(s1), compaction_term |-> 0]
                       ELSE [st |-> [s1 EXCEPT !.log_lengths[s.term] =
                                                   increase_len(@)],
                             compaction_term |->
                                 IF OverThreshold(o) THEN old_term ELSE 0]
    ELSE LET c == IF s.term \in DOMAIN s.log_lengths
                  THEN s.log_lengths[s.term] ELSE NewLengthCount
         IN  [st |-> [s EXCEPT !.log_lengths = Put(@, s.term, increase_len(c))],
              compaction_term |-> 0]

\* Fault: in the active segment only the Remove command is counted as
\* garbage, not the Set it removes.
remove_count_once(s, key) ==
    LET old_term == s.map[key].term IN
    IF old_term \notin DOMAIN s.log_lengths \/ s.term \notin DOMAIN s.log_lengths
    THEN [st |-> Panic(s), compaction_term |-> 0]
    ELSE IF old_term = s.term
    THEN LET c == increase_len_with_garbage(s.log_lengths[s.term])
         IN  [st |-> [s EXCEPT !.log_lengths[s.term] = c],
              compaction_term |-> IF OverThreshold(c) THEN s.term ELSE 0]
    ELSE LET o == increase_garbage_len(s.log_lengths[old_term])
         IN  [st |-> [s EXCEPT !.log_lengths[old_term] = o,
                               !.log_lengths[s.term] = increase_len_with_garbage(@)],
              compaction_term |-> IF OverThreshold(o) THEN old_term ELSE 0]

\* The length counting of remove, for a key the index holds.
remove_count(s, key) ==
    LET old_term == s.map[key].term IN
    IF old_term = s.term
    THEN IF s.term \notin DOMAIN s.log_lengths
         THEN [st |-> Panic(s), compaction_term |-> 0]
         ELSE LET c == increase_len_with_garbage(
                           increase_garbage_len(s.log_lengths[s.term]))
              IN  [st |-> [s EXCEPT !.log_lengths[s.term] = c],
                   compaction_term |-> IF OverThreshold(c) THEN s.term ELSE 0]
    ELSE IF old_term \notin DOMAIN s.log_lengths
         THEN [st |-> Panic(s), compaction_term |-> 0]
         ELSE LET o  == increase_garbage_len(s.log_lengths[old_term])
                  s1 == [s EXCEPT !.log_lengths[old_term] = o]
              IN  IF s.term \notin DOMAIN s.log_lengths
                  THEN [st |-> Panic(s1), compaction_term |-> 0]
                  ELSE [st |-> [s1 EXCEPT !.log_lengths[s.term] =
                                              increase_len_with_garbage(@)],
                        compaction_term |->
                            IF OverThreshold(o) THEN old_term ELSE 0]

\* The Set commands of a file whose key the index still places in `term`,
\* as the HashMap compaction collects them: a later command of a key
\* replaces an earlier one.
\* Fault: the first command of a key is kept, not the last.
RECURSIVE temp_map_first(_, _, _, _)
temp_map_first(file, n, map, term) ==
    IF n = 0 THEN EmptyMap
    ELSE LET rest == temp_map_first(file, n - 1, map, term)
             c    == file[n]
         IN  IF c.cmd = "Set" /\ c.key \in DOMAIN map /\ map[c.key].term = term
                /\ c.key \notin DOMAIN rest
             THEN Put(rest, c.key, c.value)
             ELSE rest

\* Fault: every Set command of the file is collected, live or not.
RECURSIVE temp_map_all(_, _, _, _)
temp_map_all(file, n, map, term) ==
    IF n = 0 THEN EmptyMap
    ELSE LET rest == temp_map_all(file, n - 1, map, term)
             c    == file[n]
         IN  IF c.cmd = "Set" THEN Put(rest, c.key, c.value) ELSE rest

RECURSIVE temp_map(_, _, _, _)
temp_map(file, n, map, term) ==
    IF n = 0 THEN EmptyMap
    ELSE LET rest == temp_map(file, n - 1, map, term)
             c    == file[n]
         IN  IF c.cmd = "Set" /\ c.key \in DOMAIN map /\ map[c.key].term = term
             THEN Put(rest, c.key, c.value)
             ELSE rest

\* The keys of a HashMap in the order `ord` iterates them.
IterationOrder(m, ord) == SelectSeq(ord, LAMBDA k : k \in DOMAIN m)

RECURSIVE set(_, _, _, _), compaction(_, _, _), rewrite(_, _, _, _)
RECURSIVE rewrite_keeping_index(_, _, _, _)

set(s0, key, value, ord) ==
    LET s1 == IF log_is_full(s0) THEN break_to_new_log_file(s0) ELSE s0
        pos_current == s1.writer.pos
        s2 == to_writer(s1, SetCommand(key, value))
        cn == set_count(s2, key)
        s3 == cn.st
    IN  IF s3.err # "ok" THEN s3
        ELSE LET s4 == [s3 EXCEPT
                          !.current_log_len = @ + 1,
                          !.map = Put(@, key, [term |-> s3.term,
                                               head |-> pos_current,
                                               tail |-> s3.writer.pos])]
             IN  IF cn.compaction_term > 0
                 THEN compaction(s4, cn.compaction_term, ord)
                 ELSE s4

\* The loop of compaction over the collected commands: each key leaves the
\* index and is set again.
\* Fault: the keys leave the index and are not set again.
rewrite_dropping(s, keys, live, ord) ==
    [s EXCEPT !.map = [k \in DOMAIN @ \ DOMAIN live |-> @[k]]]

\* Fault: the key stays in the index while it is set again.
rewrite_keeping_index(s, keys, live, ord) ==
    IF keys = <<>> \/ s.err # "ok" THEN s
    ELSE rewrite_keeping_index(set(s, Head(keys), live[Head(keys)], ord),
                               Tail(keys), live, ord)

rewrite(s, keys, live, ord) ==
    IF keys = <<>> \/ s.err # "ok" THEN s
    ELSE LET k == Head(keys) IN
         IF k \notin DOMAIN s.map THEN Panic(s)
         ELSE rewrite(set([s EXCEPT !.map = Del(@, k)], k, live[k], ord),
                      Tail(keys), live, ord)

\* The failure of compaction's check of the counter of `term` against the
\* commands it collected, as the event <<"bug", term, counter, number of
\* commands collected>>.
CompactionBug(s, term, live) ==
    [s EXCEPT !.events = Append(@, <<"bug", term, s.log_lengths[term],
                                     Cardinality(DOMAIN live)>>)]

\* Fault: no new log file is begun when the file to compact is the current
\* one.
compaction_without_break(s00, term, ord) ==
    LET s0 == [s00 EXCEPT !.events = Append(@, <<"start", term, s00.term,
                                                 s00.current_log_len>>)]
    IN  IF term \notin s0.readers THEN Panic(s0)
        ELSE
        LET s2   == [s0 EXCEPT !.readers = @ \ {term}]
            file == IF term \in DOMAIN s2.disk THEN s2.disk[term] ELSE <<>>
            live == temp_map(file, Len(file), s2.map, term)
            s3   == rewrite(s2, IterationOrder(live, ord), live, ord)
        IN  IF s3.err # "ok" THEN s3
            ELSE IF term \notin DOMAIN s3.log_lengths THEN Panic(s3)
            ELSE [s3 EXCEPT !.log_lengths = Del(@, term),
                            !.disk = Del(@, term),
                            !.events = Append(@,
                                <<"compaction", term, Cardinality(DOMAIN live),
                                  s2.log_lengths[term], s3.log_lengths[term]>>)]

compaction(s00, term, ord) ==
    LET s0 == [s00 EXCEPT !.events = Append(@, <<"start", term, s00.term,
                                                 s00.current_log_len>>)]
        s1 == IF term = s0.term
                 /\ s0.current_log_len < MAX_NUM_COMMAND_PER_FILE
              THEN break_to_new_log_file(s0) ELSE s0
    IN  IF term \notin s1.readers THEN Panic(s1)
        ELSE
        LET s2   == [s1 EXCEPT !.readers = @ \ {term}]
            file == IF term \in DOMAIN s2.disk THEN s2.disk[term] ELSE <<>>
            live == temp_map(file, Len(file), s2.map, term)
        IN  IF term \notin DOMAIN s2.log_lengths THEN Panic(s2)
            \* len - len_garbage on usize: a panic when it underflows, or a
            \* wrapped value that fails the comparison below and panics.
            ELSE IF s2.log_lengths[term].len < s2.log_lengths[term].len_garbage
            THEN Panic(CompactionBug(s2, term, live))
            ELSE IF effective_len(s2.log_lengths[term]) # Cardinality(DOMAIN live)
            THEN Panic(CompactionBug(s2, term, live))
            ELSE
            LET s3 == rewrite(s2, IterationOrder(live, ord), live, ord)
            IN  IF s3.err # "ok" THEN s3
                ELSE IF term \notin DOMAIN s3.log_lengths THEN Panic(s3)
                ELSE LET s4 == [s3 EXCEPT !.log_lengths = Del(@, term)]
                     IN  IF term \notin DOMAIN s4.disk
                         THEN [s4 EXCEPT !.err = "io"]
                         ELSE [s4 EXCEPT !.disk = Del(@, term),
                                         !.events = Append(@,
                                             <<"compaction", term,
                                               Cardinality(DOMAIN live),
                                               s2.log_lengths[term],
                                               s3.log_lengths[term]>>)]

\* Fault: the command is written before the key is looked up.
remove_writing_first(s0, key, ord) ==
    LET s1 == IF log_is_full(s0) THEN break_to_new_log_file(s0) ELSE s0
        s2 == to_writer(s1, RemoveCommand(key))
    IN  IF key \notin DOMAIN s0.map THEN [s2 EXCEPT !.err = "KeyNotFound"]
        ELSE LET cn == remove_count(s2, key)
                 s3 == cn.st
             IN  IF s3.err # "ok" THEN s3
                 ELSE LET s4 == [s3 EXCEPT !.current_log_len = @ + 1,
                                           !.map = Del(@, key)]
                      IN  IF cn.compaction_term > 0
                          THEN compaction(s4, cn.compaction_term, ord)
                          ELSE s4

remove(s0, key, ord) ==
    IF key \notin DOMAIN s0.map THEN [s0 EXCEPT !.err = "KeyNotFound"]
    ELSE
    LET s1 == IF log_is_full(s0) THEN break_to_new_log_file(s0) ELSE s0
        s2 == to_writer(s1, RemoveCommand(key))
        cn == remove_count(s2, key)
        s3 == cn.st
    IN  IF s3.err # "ok" THEN s3
        ELSE LET s4 == [s3 EXCEPT !.current_log_len = @ + 1,
                                  !.map = Del(@, key)]
             IN  IF cn.compaction_term > 0
                 THEN compaction(s4, cn.compaction_term, ord)
                 ELSE s4

\* The process may stop while compaction is at work.  The points where it
\* stops: 0, compaction has begun its new log file, if it begins one;
\* 2j - 1, the set that rewrites the j-th command has begun its new log
\* file, if it begins one, and has written nothing; 2j, that set has
\* written and flushed its command and put the key in the index.  At each
\* of them log_lengths.remove and remove_file are still to come.
RECURSIVE rewrite_stopping(_, _, _, _, _)
rewrite_stopping(s, keys, live, ord, n) ==
    IF keys = <<>> \/ n = 0 THEN s
    ELSE LET k  == Head(keys)
             s1 == [s EXCEPT !.map = Del(@, k)]
         IN  IF n = 1
             THEN IF log_is_full(s1) THEN break_to_new_log_file(s1) ELSE s1
             ELSE rewrite_stopping(set(s1, k, live[k], ord), Tail(keys), live, ord,
                                   n - 2)

\* Fault: the file is deleted once its commands are collected, before they
\* are written again.
compaction_deleting_first(s00, term, ord, n) ==
    LET s0 == [s00 EXCEPT !.events = Append(@, <<"start", term, s00.term,
                                                 s00.current_log_len>>)]
        s1 == IF term = s0.term
                 /\ s0.current_log_len < MAX_NUM_COMMAND_PER_FILE
              THEN break_to_new_log_file(s0) ELSE s0
    IN  IF term \notin s1.readers \/ term \notin DOMAIN s1.log_lengths
        THEN Panic(s1)
        ELSE
        LET file == IF term \in DOMAIN s1.disk THEN s1.disk[term] ELSE <<>>
            live == temp_map(file, Len(file), s1.map, term)
            s2   == [s1 EXCEPT !.readers = @ \ {term}, !.disk = Del(@, term)]
        IN  rewrite_stopping(s2, IterationOrder(live, ord), live, ord, n)

\* compaction as far as the point n, the file and its counter still in place.
compaction_stopping(s00, term, ord, n) ==
    LET s0 == [s00 EXCEPT !.events = Append(@, <<"start", term, s00.term,
                                                 s00.current_log_len>>)]
        s1 == IF term = s0.term
                 /\ s0.current_log_len < MAX_NUM_COMMAND_PER_FILE
              THEN break_to_new_log_file(s0) ELSE s0
    IN  IF term \notin s1.readers \/ term \notin DOMAIN s1.log_lengths
        THEN Panic(s1)
        ELSE
        LET s2   == [s1 EXCEPT !.readers = @ \ {term}]
            file == IF term \in DOMAIN s2.disk THEN s2.disk[term] ELSE <<>>
            live == temp_map(file, Len(file), s2.map, term)
        IN  IF s2.log_lengths[term].len < s2.log_lengths[term].len_garbage
               \/ effective_len(s2.log_lengths[term]) # Cardinality(DOMAIN live)
            THEN Panic(CompactionBug(s2, term, live))
            ELSE rewrite_stopping(s2, IterationOrder(live, ord), live, ord, n)

\* set, the process stopping at the point n of the compaction it calls.
set_stopping(s0, key, value, ord, n) ==
    LET s1 == IF log_is_full(s0) THEN break_to_new_log_file(s0) ELSE s0
        pos_current == s1.writer.pos
        s2 == to_writer(s1, SetCommand(key, value))
        cn == set_count(s2, key)
        s3 == cn.st
    IN  IF s3.err # "ok" THEN s3
        ELSE LET s4 == [s3 EXCEPT
                          !.current_log_len = @ + 1,
                          !.map = Put(@, key, [term |-> s3.term,
                                               head |-> pos_current,
                                               tail |-> s3.writer.pos])]
             IN  IF cn.compaction_term > 0
                 THEN compaction_stopping(s4, cn.compaction_term, ord, n)
                 ELSE s4

\* remove, the process stopping at the point n of the compaction it calls.
remove_stopping(s0, key, ord, n) ==
    IF key \notin DOMAIN s0.map THEN [s0 EXCEPT !.err = "KeyNotFound"]
    ELSE
    LET s1 == IF log_is_full(s0) THEN break_to_new_log_file(s0) ELSE s0
        s2 == to_writer(s1, RemoveCommand(key))
        cn == remove_count(s2, key)
        s3 == cn.st
    IN  IF s3.err # "ok" THEN s3
        ELSE LET s4 == [s3 EXCEPT !.current_log_len = @ + 1,
                                  !.map = Del(@, key)]
             IN  IF cn.compaction_term > 0
                 THEN compaction_stopping(s4, cn.compaction_term, ord, n)
                 ELSE s4

\* The read of get at an index entry: seek to head, read tail - head bytes,
\* decode them.  Some(value) is [ret |-> "ok", value |-> v].
read_value(s, index) ==
    IF index.term \notin s.readers THEN [ret |-> "panic", value |-> None]
    ELSE LET file == IF index.term \in DOMAIN s.disk
                     THEN s.disk[index.term] ELSE <<>>
         IN  IF index.tail < index.head
             THEN [ret |-> "panic", value |-> None]
             ELSE IF index.tail > FileLen(file)
             THEN [ret |-> "io", value |-> None]
             ELSE LET command == from_slice(file, index.head, index.tail)
                  IN  CASE command.cmd = "Set" ->
                               [ret |-> "ok", value |-> command.value]
                        [] command.cmd = "Remove" ->
                               [ret |-> "panic", value |-> None]
                        [] OTHER -> [ret |-> "serde", value |-> None]

\* Fault: a key the index does not hold is an error.
get_missing_is_error(s, key) ==
    IF key \notin DOMAIN s.map THEN [ret |-> "KeyNotFound", value |-> None]
    ELSE read_value(s, s.map[key])

\* get: Ok(None), as [ret |-> "ok", value |-> None], for a key the index
\* does not hold.
get(s, key) ==
    IF key \notin DOMAIN s.map THEN [ret |-> "ok", value |-> None]
    ELSE read_value(s, s.map[key])

\* get with the readers as they are: each BufReader stands at a position
\* of its file, `cur[term]` (0 for a reader not used yet), and is used again
\* by the next get.
ReaderPos(cur, t) == IF t \in DOMAIN cur THEN cur[t] ELSE 0

\* Fault: the reader is read from where it stands, without the seek.
read_at_unsought(s, cur, index) ==
    IF index.term \notin s.readers
    THEN [ret |-> "panic", value |-> None, cur |-> cur]
    ELSE LET file  == IF index.term \in DOMAIN s.disk
                      THEN s.disk[index.term] ELSE <<>>
             start == ReaderPos(cur, index.term)
             n     == index.tail - index.head
         IN  IF n < 0 THEN [ret |-> "panic", value |-> None, cur |-> cur]
             ELSE IF start + n > FileLen(file)
             THEN [ret |-> "io", value |-> None,
                   cur |-> Put(cur, index.term, FileLen(file))]
             ELSE LET command == from_slice(file, start, start + n)
                      after   == Put(cur, index.term, start + n)
                  IN  CASE command.cmd = "Set" ->
                               [ret |-> "ok", value |-> command.value, cur |-> after]
                        [] command.cmd = "Remove" ->
                               [ret |-> "panic", value |-> None, cur |-> after]
                        [] OTHER -> [ret |-> "serde", value |-> None, cur |-> after]

\* reader.seek(SeekFrom::Start(head)), read_exact of tail - head bytes,
\* from_slice: the reader is left at tail.
read_at(s, cur, index) ==
    IF index.term \notin s.readers
    THEN [ret |-> "panic", value |-> None, cur |-> cur]
    ELSE LET file == IF index.term \in DOMAIN s.disk
                     THEN s.disk[index.term] ELSE <<>>
             n    == index.tail - index.head
         IN  IF n < 0
             THEN [ret |-> "panic", value |-> None,
                   cur |-> Put(cur, index.term, index.head)]
             ELSE IF index.head + n > FileLen(file)
             THEN [ret |-> "io", value |-> None,
                   cur |-> Put(cur, index.term, FileLen(file))]
             ELSE LET command == from_slice(file, index.head, index.head + n)
                      after   == Put(cur, index.term, index.head + n)
                  IN  CASE command.cmd = "Set" ->
                               [ret |-> "ok", value |-> command.value, cur |-> after]
                        [] command.cmd = "Remove" ->
                               [ret |-> "panic", value |-> None, cur |-> after]
                        [] OTHER -> [ret |-> "serde", value |-> None, cur |-> after]

get_at(s, cur, key) ==
    IF key \notin DOMAIN s.map THEN [ret |-> "ok", value |-> None, cur |-> cur]
    ELSE read_at(s, cur, s.map[key])

(***************************************************************************)
(* open                                                                    *)
(***************************************************************************)

\* Fault: a Remove command leaves the index as it is.
replay_command_keeping_removed(a, current_term, c, head, tail) ==
    IF c.cmd = "Set"
    THEN [a EXCEPT !.count = increase_len(@),
                   !.map = Put(@, c.key, [term |-> current_term,
                                          head |-> head,
                                          tail |-> tail]),
                   !.current_log_len = @ + 1]
    ELSE [a EXCEPT !.count = increase_len_with_garbage(@),
                   !.current_log_len = @ + 1]

\* Fault: a Set of a key the index holds leaves the entry of the key.
replay_command_keeping_first(a, current_term, c, head, tail) ==
    IF c.cmd = "Set" /\ c.key \notin DOMAIN a.map
    THEN [a EXCEPT !.count = increase_len(@),
                   !.map = Put(@, c.key, [term |-> current_term,
                                          head |-> head,
                                          tail |-> tail]),
                   !.current_log_len = @ + 1]
    ELSE [a EXCEPT !.count = increase_len_with_garbage(@),
                   !.current_log_len = @ + 1]

\* One command of the replay loop of open: `a` carries the index, the
\* counters of the earlier files and `count`, the counter of this file.
replay_command(a, current_term, c, head, tail) ==
    LET present  == c.key \in DOMAIN a.map
        old_term == a.map[c.key].term
    IN
    IF c.cmd = "Set"
    THEN LET b == IF ~present
                  THEN [a EXCEPT !.count = increase_len(@)]
                  ELSE IF old_term = current_term
                  THEN [a EXCEPT !.count = increase_len_with_garbage(@)]
                  ELSE IF old_term \notin DOMAIN a.log_lengths THEN Panic(a)
                  ELSE [a EXCEPT !.log_lengths[old_term] = increase_garbage_len(@),
                                 !.count = increase_len(@)]
         IN  IF b.err # "ok" THEN b
             ELSE [b EXCEPT !.map = Put(@, c.key, [term |-> current_term,
                                                   head |-> head,
                                                   tail |-> tail]),
                            !.current_log_len = @ + 1]
    ELSE LET b == IF ~present THEN a
                  ELSE IF old_term = current_term
                  THEN [a EXCEPT !.count = increase_len_with_garbage(
                                               increase_garbage_len(@))]
                  ELSE IF old_term \notin DOMAIN a.log_lengths THEN Panic(a)
                  ELSE [a EXCEPT !.log_lengths[old_term] = increase_garbage_len(@),
                                 !.count = increase_len_with_garbage(@)]
         IN  IF b.err # "ok" THEN b
             ELSE [b EXCEPT !.map = Del(@, c.key), !.current_log_len = @ + 1]

\* The replay loop over the commands i.. of a file.  A command that does
\* not decode is passed over (`if let Ok(command)` has no else); what the
\* stream yields after it is serde_json's matter: nothing more when
\* a.fused, the commands that follow otherwise.
RECURSIVE replay(_, _, _, _)
replay(a, current_term, file, i) ==
    IF i > Len(file) \/ a.err # "ok" THEN a
    ELSE IF file[i].cmd = "Err"
    THEN IF a.fused THEN a ELSE replay(a, current_term, file, i + 1)
    ELSE replay(replay_command(a, current_term, file[i],
                               EndOffset(file, i - 1), EndOffset(file, i)),
                current_term, file, i + 1)

Min(S) == CHOOSE x \in S : \A y \in S : x <= y

\* The loop of open over the log files, in ascending order of their names.
RECURSIVE scan(_, _, _)
scan(a, ids, disk) ==
    IF ids = {} \/ a.err # "ok" THEN a
    ELSE LET current_term == Min(ids) IN
         IF ~(current_term > a.term) THEN Panic(a)
         ELSE LET r == replay([a EXCEPT !.count = NewLengthCount,
                                        !.current_log_len = 0],
                              current_term, disk[current_term], 1)
              IN  IF r.err # "ok" THEN r
                  ELSE scan([r EXCEPT !.readers = @ \cup {current_term},
                                      !.log_lengths = Put(@, current_term, r.count),
                                      !.term = current_term,
                                      !.last_log_path = current_term],
                            ids \ {current_term}, disk)

\* open on a directory holding the segment files `disk0` and `foreign`
\* entries whose names are no numbers, with a command stream that ends at
\* its first error (`fused`) or goes on after it.
open_stream(disk0, foreign, fused) ==
    LET log_file_count == Cardinality(DOMAIN disk0) + foreign
        a0 == [map |-> EmptyMap, readers |-> {}, log_lengths |-> EmptyMap,
               term |-> IF log_file_count # 0 THEN 0 ELSE 1,
               current_log_len |-> 0, count |-> NewLengthCount,
               last_log_path |-> 1, fused |-> fused, err |-> "ok"]
        a  == IF log_file_count # 0 THEN scan(a0, DOMAIN disk0, disk0) ELSE a0
        d  == IF a.err = "ok" THEN CreateFile(disk0, a.last_log_path) ELSE disk0
    IN  [map |-> a.map,
         readers |-> IF log_file_count = 0 THEN {a.term} ELSE a.readers,
         log_lengths |-> IF log_file_count = 0
                         THEN Put(a.log_lengths, a.term, NewLengthCount)
                         ELSE a.log_lengths,
         term |-> a.term,
         current_log_len |-> a.current_log_len,
         writer |-> NewWriter(d, a.last_log_path),
         disk |-> d,
         events |-> <<>>,
         err |-> a.err]

open(disk0, foreign) == open_stream(disk0, foreign, TRUE)

(***************************************************************************)
(* State                                                                   *)
(***************************************************************************)

VARIABLES
    disk,             \* kvs.store/: name of a segment file |-> its commands
    foreign,          \* number of entries of kvs.store/ whose name is no number
    alive,            \* a KvStore exists (opened, not dropped, not panicked)
    map,              \* KvStore.map: key |-> ValueIndex
    readers,          \* KvStore.readers: the terms that have a reader
    log_lengths,      \* KvStore.log_lengths: term |-> LengthCount
    term,             \* KvStore.term
    current_log_len,  \* KvStore.current_log_len
    writer,           \* KvStore.writer: the file it appends to and its pos
    result,           \* the last call: operation, arguments and what it returned
    store,            \* the in-memory store of project-1, given the same calls
    snap,             \* what get returned for each key when the store was dropped
    calls             \* what the runs that keep a log have logged: the set and
                      \* remove calls made, the stop or the damage that
                      \* happened, the positions the readers are at, or the
                      \* second of two runs that get the same calls

vars == <<disk, foreign, alive, map, readers, log_lengths, term,
          current_log_len, writer, result, store, snap, calls, max_per_file>>

NoWriter == [file |-> 0, pos |-> 0]

\* The KvStore of the current state.
St == [map |-> map, readers |-> readers, log_lengths |-> log_lengths,
       term |-> term, current_log_len |-> current_log_len, writer |-> writer,
       disk |-> disk, events |-> <<>>, err |-> "ok"]

Result(op, key, value, ret, events) ==
    [op |-> op, key |-> key, value |-> value, ret |-> ret, events |-> events]

\* The state after an operation that left the KvStore `s`: a panic ends the
\* process and leaves the directory as it is.
Install(s) ==
    /\ disk' = s.disk
    /\ alive' = (s.err # "panic")
    /\ IF s.err # "panic"
       THEN /\ map' = s.map
            /\ readers' = s.readers
            /\ log_lengths' = s.log_lengths
            /\ term' = s.term
            /\ current_log_len' = s.current_log_len
            /\ writer' = s.writer
       ELSE /\ map' = EmptyMap
            /\ readers' = {}
            /\ log_lengths' = EmptyMap
            /\ term' = 0
            /\ current_log_len' = 0
            /\ writer' = NoWriter

\* The places <<file, i>> of the commands on disk.
Places(d) == UNION {{<<f, i>> : i \in 1..Len(d[f])} : f \in DOMAIN d}

\* What get returns for every key.
Contents(s) == [k \in Keys |-> get(s, k)]

\* The iteration order of compaction's HashMap is free.  It shows only when
\* a compaction rewrites two commands or more, or is cut short: Outcomes is
\* the outcome `s` under FirstOrder, or the outcomes of Op under every order
\* when they may differ.
FirstOrder == CHOOSE o \in KeyOrders : TRUE

Outcomes(s, Op(_)) ==
    IF s.err \in {"ok", "KeyNotFound"}
       /\ \A i \in DOMAIN s.events :
              s.events[i][1] = "compaction" => s.events[i][3] <= 1
    THEN {s} ELSE {Op(ord) : ord \in KeyOrders}

InitDir(n) ==
    /\ disk = EmptyMap
    /\ foreign = n
    /\ alive = FALSE
    /\ map = EmptyMap
    /\ readers = {}
    /\ log_lengths = EmptyMap
    /\ term = 0
    /\ current_log_len = 0
    /\ writer = NoWriter
    /\ result = Result("none", None, None, "ok", <<>>)
    /\ store = EmptyMap
    /\ snap = EmptyMap
    /\ calls = <<>>
    /\ max_per_file = SHORT_NUM_COMMAND_PER_FILE

\* No store yet, on an empty directory.
Init == InitDir(0)

(***************************************************************************)
(* Operations                                                              *)
(***************************************************************************)

\* KvStore::open returning the store `s`, or failing.
Opened(s) ==
    /\ ~alive
    /\ Install(s)
    /\ result' = Result("open", None, None, s.err, s.events)
    /\ store' = IF s.err = "ok"
                THEN [k \in DOMAIN s.map |-> get(s, k).value] ELSE EmptyMap
    /\ UNCHANGED <<max_per_file, foreign, snap>>

Open == Opened(open(disk, foreign))

\* open with either behaviour of the command stream after an error.
OpenStream == \E fused \in BOOLEAN : Opened(open_stream(disk, foreign, fused))

\* The bytes of one command of a segment file are damaged while no store is
\* open: the command no longer decodes.
Corrupted(d) == {p \in Places(d) : d[p[1]][p[2]].cmd = "Err"}

Corrupt ==
    /\ ~alive
    /\ Corrupted(disk) = {}
    /\ \E p \in Places(disk) :
          disk' = [disk EXCEPT ![p[1]][p[2]] = DecodeErr]
    /\ result' = Result("corrupt", None, None, "ok", <<>>)
    /\ UNCHANGED <<max_per_file, foreign, alive, map, readers, log_lengths, term,
                   current_log_len, writer, store, snap>>

\* Dropping the store: the writer has flushed every command already.
Close ==
    /\ alive
    /\ snap' = Contents(St)
    /\ alive' = FALSE
    /\ map' = EmptyMap
    /\ readers' = {}
    /\ log_lengths' = EmptyMap
    /\ term' = 0
    /\ current_log_len' = 0
    /\ writer' = NoWriter
    /\ result' = Result("close", None, None, "ok", <<>>)
    /\ store' = EmptyMap
    /\ UNCHANGED <<disk, foreign, max_per_file>>

Set(key, value) ==
    /\ alive
    /\ \E s \in Outcomes(set(St, key, value, FirstOrder),
                          LAMBDA ord : set(St, key, value, ord)) :
          /\ Install(s)
          /\ result' = Result("set", key, value, s.err, s.events)
          /\ store' = IF s.err = "panic" THEN EmptyMap ELSE Put(store, key, value)
    /\ snap' = EmptyMap
    /\ UNCHANGED <<foreign, max_per_file>>

Remove(key) ==
    /\ alive
    /\ \E s \in Outcomes(remove(St, key, FirstOrder),
                          LAMBDA ord : remove(St, key, ord)) :
          /\ Install(s)
          /\ result' = Result("remove", key, None, s.err, s.events)
          /\ store' = IF s.err = "panic" THEN EmptyMap ELSE Del(store, key)
    /\ snap' = EmptyMap
    /\ UNCHANGED <<foreign, max_per_file>>

Get(key) ==
    /\ alive
    /\ LET r == get(St, key) IN
       /\ Install([St EXCEPT !.err = IF r.ret = "panic" THEN "panic" ELSE "ok"])
       /\ result' = Result("get", key, r.value, r.ret, <<>>)
       /\ store' = IF r.ret = "panic" THEN EmptyMap ELSE store
    /\ snap' = EmptyMap
    /\ UNCHANGED <<foreign, max_per_file>>

\* get, in the runs that follow the readers: `calls` is the positions they
\* are at, and the event <<"seek", term, position the reader was at, head>>
\* tells where the reader was moved from.
GetAt(key) ==
    /\ alive
    /\ LET r == get_at(St, calls, key) IN
       /\ Install([St EXCEPT !.err = IF r.ret = "panic" THEN "panic" ELSE "ok"])
       /\ result' = Result("get", key, r.value, r.ret,
                           IF key \in DOMAIN map
                           THEN <<<<"seek", map[key].term,
                                   ReaderPos(calls, map[key].term),
                                   map[key].head>>>>
                           ELSE <<>>)
       /\ store' = IF r.ret = "panic" THEN EmptyMap ELSE store
       /\ calls' = r.cur
    /\ snap' = EmptyMap
    /\ UNCHANGED <<foreign, max_per_file>>

\* The readers a call leaves are those of the files it did not compact; a
\* new file gets a new reader, at 0.
ReadersLeft(cur, rs) == [t \in DOMAIN cur \cap rs |-> cur[t]]

\* The bytes of a Set command of a segment file are overwritten while the
\* store is open, by those of another command of the same length: a Set of
\* another key, or a Remove (of a key long enough to fill the bytes).  The
\* index is as it was and now names bytes that are not the key's command.
LongKeys == {"kkkkkkkkkkk", "kkkkkkkkkkkk"}

Replacements(c) ==
    {x \in {SetCommand(in[1], in[2]) : in \in SetInputs}
            \cup {RemoveCommand(k) : k \in LongKeys} :
        ByteLen(x) = ByteLen(c) /\ x.key # c.key}

Damage ==
    /\ alive
    /\ calls = <<>>
    /\ \E p \in Places(disk) :
          /\ disk[p[1]][p[2]].cmd = "Set"
          /\ \E x \in Replacements(disk[p[1]][p[2]]) :
                /\ disk' = [disk EXCEPT ![p[1]][p[2]] = x]
                /\ calls' = <<<<"damage", p, x>>>>
    /\ result' = Result("damage", None, None, "ok", <<>>)
    /\ UNCHANGED <<max_per_file, foreign, alive, map, readers, log_lengths, term,
                   current_log_len, writer, store, snap>>

\* The term of the compaction a call was in, from its events.
CompactionTerm(s) ==
    s.events[CHOOSE i \in DOMAIN s.events : s.events[i][1] = "start"][2]

\* What the index entries that name the file `t` give when read from it.
LiveIn(s, t) ==
    [k \in {x \in DOMAIN s.map : s.map[x].term = t} |->
        [ret |-> "ok",
         value |-> from_slice(s.disk[t], s.map[k].head, s.map[k].tail).value]]

\* The process stops inside the compaction of a set or remove: `begun` is
\* the store as compaction found it, `s` the store at the point n.  The
\* directory stays as it is at that point and the store is gone; `snap`
\* keeps what the keys of the file under compaction had as values.
Stopped(begun, s, n, op, key, value) ==
    /\ alive
    /\ s.err = "ok"
    /\ \E i \in DOMAIN s.events : s.events[i][1] = "start"
    /\ disk' = s.disk
    /\ alive' = FALSE
    /\ map' = EmptyMap
    /\ readers' = {}
    /\ log_lengths' = EmptyMap
    /\ term' = 0
    /\ current_log_len' = 0
    /\ writer' = NoWriter
    /\ result' = Result("stop", key, value, "ok", Append(s.events, <<"stop", n, op>>))
    /\ store' = EmptyMap
    /\ snap' = LiveIn(begun, CompactionTerm(s))
    /\ calls' = <<<<"stop", CompactionTerm(s), n>>>>
    /\ UNCHANGED <<foreign, max_per_file>>

StopInSet(key, value, n) ==
    Stopped(set_stopping(St, key, value, FirstOrder, 0),
            set_stopping(St, key, value, FirstOrder, n), n, "set", key, value)

StopInRemove(key, n) ==
    Stopped(remove_stopping(St, key, FirstOrder, 0),
            remove_stopping(St, key, FirstOrder, n), n, "remove", key, None)

(***************************************************************************)
(* The command line of project-2 (src/project-2/src/bin/kvs.rs) over the   *)
(* store: one process per command, which opens the store in the current    *)
(* directory, makes one call and ends.                                     *)
(***************************************************************************)

\* The file operations of the store that the environment lets fail with an
\* io::Error in one run of the command line: none, those of open, or those
\* of the call made after it.
Faults == {"none", "open", "op"}

\* How the process ends: main returns Ok(()) (status 0), returns an Err
\* (status 1) or panics (status 101); `out` is what it printed on stdout.
Exit(err, out) ==
    [stdout |-> out,
     exit   |-> CASE err = "ok" -> "0" [] err = "panic" -> "101" [] OTHER -> "1"]

\* KvStore::open("./")? as main calls it.
cli_open(d, f, fault) ==
    IF fault = "open"
    THEN [map |-> EmptyMap, readers |-> {}, log_lengths |-> EmptyMap,
          term |-> 0, current_log_len |-> 0, writer |-> NoWriter,
          disk |-> d, events |-> <<>>, err |-> "io"]
    ELSE open(d, f)

\* The results of a call of the store on `s` that reaches a file operation
\* when `does_io`: under the fault "op" that operation fails and the call
\* returns the io::Error.
cli_call(s, does_io, fault, r, Op(_)) ==
    IF fault = "op" /\ does_io THEN {[s EXCEPT !.err = "io"]}
    ELSE Outcomes(r, Op)

\* The "set" arm of main: the result of store.set is the result of main.
main_set(o, r) == IF o.err # "ok" THEN Exit(o.err, "") ELSE Exit(r.err, "")

\* The "get" arm of main, `g` being what store.get returned.
main_get(o, g) ==
    IF o.err # "ok" THEN Exit(o.err, "")
    ELSE IF g.ret # "ok" THEN Exit(g.ret, "")
    ELSE Exit("ok", IF g.value = None THEN "Key not found" ELSE g.value)

\* Fault: the "rm" arm returns Ok(()) whatever remove returned.
main_rm_always_ok(o, r) ==
    IF o.err # "ok" THEN Exit(o.err, "")
    ELSE IF r.err = "panic" THEN Exit("panic", "")
    ELSE IF r.err = "KeyNotFound" THEN Exit("ok", "Key not found")
    ELSE Exit("ok", "")

\* The "rm" arm of main: Err(NO_KEY_ERROR) is printed and returned, every
\* other result of store.remove falls to `_ => Ok(())`.
main_rm(o, r) ==
    IF o.err # "ok" THEN Exit(o.err, "")
    ELSE IF r.err = "panic" THEN Exit("panic", "")
    ELSE IF r.err = "KeyNotFound" THEN Exit("KeyNotFound", "Key not found")
    ELSE Exit("ok", "")

\* One run of the command line ended: `o` is what open gave, `r_err` what
\* the call returned, `d` the directory it leaves.  No store is left open.
CliDone(cmd, key, o, r_err, d, x) ==
    /\ ~alive
    /\ disk' = d
    /\ result' = Result(cmd, key, x.stdout, x.exit,
                        <<<<"engine", o.err, IF o.err = "ok" THEN r_err ELSE "none",
                            key \in DOMAIN o.map>>>>)
    /\ snap' = EmptyMap
    /\ UNCHANGED <<max_per_file, foreign, alive, map, readers, log_lengths, term,
                   current_log_len, writer, store>>

CliSet(key, value, fault) ==
    LET o == cli_open(disk, foreign, fault) IN
    /\ o.term < MaxCliTerm
    /\ IF o.err # "ok" THEN CliDone("kvs set", key, o, "none", o.disk, main_set(o, o))
       ELSE \E r \in cli_call(o, TRUE, fault, set(o, key, value, FirstOrder),
                              LAMBDA ord : set(o, key, value, ord)) :
               CliDone("kvs set", key, o, r.err, r.disk, main_set(o, r))

CliGet(key, fault) ==
    LET o == cli_open(disk, foreign, fault)
        g == get(o, key)
        r == IF fault = "op" /\ key \in DOMAIN o.map
             THEN [ret |-> "io", value |-> None] ELSE g
    IN  CliDone("kvs get", key, o, r.ret, o.disk, main_get(o, r))

CliRm(key, fault) ==
    LET o == cli_open(disk, foreign, fault) IN
    /\ o.term < MaxCliTerm
    /\ IF o.err # "ok" THEN CliDone("kvs rm", key, o, "none", o.disk, main_rm(o, o))
       ELSE \E r \in cli_call(o, key \in DOMAIN o.map, fault,
                              remove(o, key, FirstOrder),
                              LAMBDA ord : remove(o, key, ord)) :
               CliDone("kvs rm", key, o, r.err, r.disk, main_rm(o, r))

\* The store on a directory of its own, empty before the first open; set and
\* remove are offered while the term is below MaxTerm.
Next ==
    /\ \/ Open
       \/ Close
       \/ \E in \in SetInputs : term < MaxTerm /\ Set(in[1], in[2])
       \/ \E key \in Keys : term < MaxTerm /\ Remove(key)
       \/ \E key \in Keys : Get(key)
    /\ UNCHANGED calls

Spec == Init /\ [][Next]_vars

\* The same store on a directory that holds an entry whose name is no number
\* (a metadata file, say) before the first open: the first session on such a
\* directory, and reopening it.
InitForeign == InitDir(1)

NextForeign ==
    /\ \/ Open
       \/ Close
       \/ \E in \in SetInputs : term < MaxForeignTerm /\ Set(in[1], in[2])
       \/ \E key \in Keys : term < MaxForeignTerm /\ Remove(key)
       \/ \E key \in Keys : Get(key)
    /\ UNCHANGED calls

SpecForeign == InitForeign /\ [][NextForeign]_vars

\* One session on a fresh directory that logs its calls: sets of one value
\* over RotationKeys and removes of one key, MaxRotationCalls of them.
NextRotation ==
    \/ Open /\ UNCHANGED calls
    \/ \E key \in RotationKeys :
          /\ Len(calls) < MaxRotationCalls
          /\ Set(key, "a")
          /\ calls' = Append(calls, <<"set", key, "a">>)
    \/ /\ Len(calls) < MaxRotationCalls
       /\ Remove("k1")
       /\ calls' = Append(calls, <<"remove", "k1", None>>)

SpecRotation == Init /\ [][NextRotation]_vars

\* One session on a fresh directory in which one key is set again and again,
\* MaxOverwriteCalls times, and read.
NextOverwrite ==
    \/ Open /\ UNCHANGED calls
    \/ \E value \in Values :
          /\ Len(calls) < MaxOverwriteCalls
          /\ Set("k1", value)
          /\ calls' = Append(calls, <<"set", "k1", value>>)
    \/ Get("k1") /\ UNCHANGED calls

SpecOverwrite == Init /\ [][NextOverwrite]_vars

\* Sessions on a directory of which one command gets damaged between two
\* sessions; set and remove are offered while every command on disk decodes
\* and the term is below MaxCorruptTerm.
NextCorrupt ==
    /\ \/ OpenStream
       \/ Close
       \/ Corrupt
       \/ \E in \in SetInputs :
             /\ term < MaxCorruptTerm /\ Corrupted(disk) = {}
             /\ Set(in[1], in[2])
       \/ \E key \in Keys :
             /\ term < MaxCorruptTerm /\ Corrupted(disk) = {}
             /\ Remove(key)
       \/ \E key \in Keys : Get(key)
    /\ UNCHANGED calls

SpecCorrupt == Init /\ [][NextCorrupt]_vars

\* Runs of the command line, one after the other, in a directory that is
\* empty before the first.
NextCli ==
    /\ \E fault \in Faults :
          \/ \E in \in CliSetInputs : CliSet(in[1], in[2], fault)
          \/ \E key \in CliKeys : CliGet(key, fault)
          \/ \E key \in CliKeys : CliRm(key, fault)
    /\ UNCHANGED calls

SpecCli == Init /\ [][NextCli]_vars

\* Sessions on a directory of the store's own, the last of which ends with
\* the process stopping inside a compaction, and the open that follows:
\* `calls` holds that stop, and nothing before it.
NextStop ==
    \/ Open /\ UNCHANGED calls
    \/ calls = <<>> /\ Close /\ UNCHANGED calls
    \/ \E in \in SetInputs :
          /\ calls = <<>> /\ term < MaxStopTerm
          /\ Set(in[1], in[2]) /\ UNCHANGED calls
    \/ \E key \in Keys :
          /\ calls = <<>> /\ term < MaxStopTerm
          /\ Remove(key) /\ UNCHANGED calls
    \/ \E in \in SetInputs, n \in 0..MaxStop :
          /\ calls = <<>> /\ term < MaxStopTerm
          /\ StopInSet(in[1], in[2], n)
    \/ \E key \in Keys, n \in 0..MaxStop :
          /\ calls = <<>> /\ term < MaxStopTerm
          /\ StopInRemove(key, n)

SpecStop == Init /\ [][NextStop]_vars

\* One session on a fresh directory in which, once, a command on disk is
\* overwritten under the open store; after that the store is read.
NextDamaged ==
    \/ Open /\ UNCHANGED calls
    \/ \E in \in SetInputs :
          /\ calls = <<>> /\ term < MaxDamagedTerm
          /\ Set(in[1], in[2]) /\ UNCHANGED calls
    \/ \E key \in Keys :
          /\ calls = <<>> /\ term < MaxDamagedTerm
          /\ Remove(key) /\ UNCHANGED calls
    \/ Damage
    \/ \E key \in Keys : Get(key) /\ UNCHANGED calls

SpecDamaged == Init /\ [][NextDamaged]_vars

\* open on a directory that holds a file named 0, a name that parses as a
\* usize, with any commands in it, and perhaps a log file 1 of the store.
Commands ==
    {SetCommand(in[1], in[2]) : in \in SetInputs} \cup {RemoveCommand(k) : k \in Keys}

Files(n) == UNION {[1..m -> Commands] : m \in 0..n}

InitZero ==
    /\ \E zero \in Files(MaxZeroLen) :
          \/ disk = (0 :> zero)
          \/ \E one \in Files(1) : disk = (0 :> zero) @@ (1 :> one)
    /\ foreign = 0
    /\ alive = FALSE
    /\ map = EmptyMap
    /\ readers = {}
    /\ log_lengths = EmptyMap
    /\ term = 0
    /\ current_log_len = 0
    /\ writer = NoWriter
    /\ result = Result("none", None, None, "ok", <<>>)
    /\ store = EmptyMap
    /\ snap = EmptyMap
    /\ calls = <<>>
    /\ max_per_file = SHORT_NUM_COMMAND_PER_FILE

NextZero == Open /\ UNCHANGED calls

SpecZero == InitZero /\ [][NextZero]_vars

\* Sessions in which no key is removed.
NextSet ==
    /\ \/ Open
       \/ Close
       \/ \E in \in SetInputs : term < MaxSetTerm /\ Set(in[1], in[2])
       \/ \E key \in Keys : Get(key)
    /\ UNCHANGED calls

SpecSet == Init /\ [][NextSet]_vars

\* Sessions in which the positions of the readers are followed.
NextRead ==
    \/ Open /\ calls' = EmptyMap
    \/ Close /\ calls' = EmptyMap
    \/ \E in \in SetInputs :
          /\ term < MaxReadTerm
          /\ Set(in[1], in[2]) /\ calls' = ReadersLeft(calls, readers')
    \/ \E key \in Keys :
          /\ term < MaxReadTerm
          /\ Remove(key) /\ calls' = ReadersLeft(calls, readers')
    \/ \E key \in Keys : GetAt(key)

SpecRead == Init /\ [][NextRead]_vars

\* The threshold test of set and remove on the counter of one segment.  A
\* counter has len_garbage <= len; the test is made on the counter of the
\* segment that holds the index entry of the key, after the counting of the
\* command: a Set of the same segment, a Remove of the same segment, or a
\* Set or Remove written to another segment.  The segment holds an index
\* entry, so its counter has an effective command.
InitCount ==
    /\ disk = EmptyMap /\ foreign = 0 /\ alive = FALSE
    /\ map = EmptyMap /\ readers = {}
    /\ \E l \in 0..MaxCount : \E g \in 0..l :
          log_lengths = (1 :> [len |-> l, len_garbage |-> g])
    /\ term = 0 /\ current_log_len = 0 /\ writer = NoWriter
    /\ result = Result("none", None, None, "ok", <<>>)
    /\ store = EmptyMap /\ snap = EmptyMap /\ calls = <<>>
    /\ max_per_file = SHORT_NUM_COMMAND_PER_FILE

Tested(op, c) ==
    /\ result.op = "none"
    /\ effective_len(log_lengths[1]) >= 1
    /\ log_lengths' = (1 :> c)
    /\ result' = Result(op, None, c,
                        IF OverThreshold(c) THEN "compaction" ELSE "ok", <<>>)
    /\ UNCHANGED <<max_per_file, disk, foreign, alive, map, readers, term,
                   current_log_len, writer, store, snap, calls>>

TestSetSame == Tested("set", increase_len_with_garbage(log_lengths[1]))

TestRemoveSame ==
    Tested("remove", increase_len_with_garbage(increase_garbage_len(log_lengths[1])))

TestOther == Tested("other", increase_garbage_len(log_lengths[1]))

NextCount == TestSetSame \/ TestRemoveSame \/ TestOther

SpecCount == InitCount /\ [][NextCount]_vars

\* Two runs of one session on a fresh directory, in a build whose files take
\* TUNED_NUM_COMMAND_PER_FILE commands.  Both runs get the same calls; each
\* iterates the HashMap of every compaction in an order of its own.  The
\* variables hold the first run; `calls` holds the KvStore and the
\* directory of the second, and the keys set so far.  The session sets
\* RotationKeys in turn, each key once or several times in a row,
\* MaxOrderCalls times in all.
MaxOrderCalls == 13

KeyRing == <<"k1", "k2", "k3", "k4", "k5">>

NextKeys(log) ==
    IF log = <<>> THEN {KeyRing[1]}
    ELSE LET last == log[Len(log)]
             i    == CHOOSE n \in DOMAIN KeyRing : KeyRing[n] = last
         IN  {last, KeyRing[(i % Len(KeyRing)) + 1]}

InitOrder ==
    /\ disk = EmptyMap /\ foreign = 0 /\ alive = FALSE
    /\ map = EmptyMap /\ readers = {} /\ log_lengths = EmptyMap
    /\ term = 0 /\ current_log_len = 0 /\ writer = NoWriter
    /\ result = Result("none", None, None, "ok", <<>>)
    /\ store = EmptyMap /\ snap = EmptyMap /\ calls = <<>>
    /\ max_per_file = TUNED_NUM_COMMAND_PER_FILE

OpenTwice ==
    /\ calls = <<>>
    /\ Open
    /\ calls' = [run |-> open(disk, foreign), keys |-> <<>>]

SetTwice(key) ==
    /\ alive
    /\ calls.run.err = "ok"
    /\ Set(key, "a")
    /\ LET other == [calls.run EXCEPT !.events = <<>>]
       IN  \E t \in Outcomes(set(other, key, "a", FirstOrder),
                             LAMBDA ord : set(other, key, "a", ord)) :
              calls' = [run |-> t, keys |-> Append(calls.keys, key)]

NextOrder ==
    \/ OpenTwice
    \/ /\ calls # <<>>
       /\ Len(calls.keys) < MaxOrderCalls
       /\ \E key \in NextKeys(calls.keys) : SetTwice(key)

SpecOrder == InitOrder /\ [][NextOrder]_vars

(***************************************************************************)
(* Properties                                                              *)
(***************************************************************************)

\* What the in-memory store of project-1 returns for a key.
store_get(key) == IF key \in DOMAIN store THEN store[key] ELSE None

Some(value) == [ret |-> "ok", value |-> value]

Compactions(r) ==
    {r.events[i][2] : i \in {j \in DOMAIN r.events : r.events[j][1] = "compaction"}}

Rotations(r) ==
    {r.events[i][2] : i \in {j \in DOMAIN r.events : r.events[j][1] = "break"}}

\* The keys the index places in a segment.
KeysIn(m, t) == {k \in DOMAIN m : m[k].term = t}

\* C1: within a session every get returns what the in-memory map of
\* project-1 returns when it is given the same set and remove calls, from the
\* contents the session started with: the value of the latest set of the key,
\* or None after a remove, whatever rotations and compactions ran in between.
C1_GetRefinesMemoryStore ==
    /\ alive => \A k \in Keys : get(St, k) = Some(store_get(k))
    /\ (alive /\ result.op = "get") =>
           /\ result.ret = "ok"
           /\ result.value = store_get(result.key)

C1_Witness ==
    /\ alive
    /\ result.op = "get"
    /\ result.value = "bb"
    /\ 1 \notin DOMAIN disk
    /\ \E k \in Keys : k \notin DOMAIN map /\ \E f \in DOMAIN disk :
           \E i \in DOMAIN disk[f] : disk[f][i] = RemoveCommand(k)

\* C2: dropping the store and opening the same directory again gives, for
\* every key, the get result the store gave just before the drop.
C2_ReopenKeepsContents ==
    (result.op = "open" /\ DOMAIN snap = Keys) =>
        /\ alive
        /\ Contents(St) = snap

\* C3: when a compaction of segment s has completed, s has no file, no reader
\* and no counter, and every key the index placed in s before the compaction
\* gives the value it gave before: the value just set for the key of the
\* call, the value of the state before the call for the others.
C3_CompactionKeepsValues ==
    [][\A s \in Compactions(result') :
          /\ alive'
          /\ s \notin DOMAIN disk'
          /\ s \notin readers'
          /\ s \notin DOMAIN log_lengths'
          /\ \A k \in KeysIn(map, s) \ {result'.key} : get(St', k) = get(St, k)
          /\ result'.op = "set" => get(St', result'.key) = Some(result'.value)
          /\ result'.op = "remove" => get(St', result'.key) = Some(None)]_vars

C3_Witness ==
    /\ alive
    /\ \E i \in DOMAIN result.events :
          /\ result.events[i][1] = "compaction"
          /\ result.events[i][3] >= 1
    /\ Cardinality(DOMAIN disk) >= 2

\* C4: remove of a key the index does not hold returns KeyNotFound and
\* changes nothing: the files, the term, the writer, the counters, the record
\* count, the readers and the index stay as they are; and a set of that key
\* made next succeeds and get then returns its value.
C4_RemoveAbsentChangesNothing ==
    [][(result'.op = "remove" /\ result'.key \notin DOMAIN map) =>
          /\ result'.ret = "KeyNotFound"
          /\ alive'
          /\ UNCHANGED <<disk, map, readers, log_lengths, term,
                         current_log_len, writer>>
          /\ \A value \in Values :
                \A s \in Outcomes(set(St', result'.key, value, FirstOrder),
                               LAMBDA ord : set(St', result'.key, value, ord)) :
                   s.err = "ok" /\ get(s, result'.key) = Some(value)]_vars

C4_Witness ==
    /\ result.op = "remove"
    /\ result.ret = "KeyNotFound"
    /\ current_log_len >= MAX_NUM_COMMAND_PER_FILE
    /\ map # EmptyMap

\* C5: get of a key the index does not hold returns Ok(None), without an
\* error and without a panic, also when the key was removed and the segment
\* of its commands compacted away.
C5_GetAbsentIsNone ==
    [][(result'.op = "get" /\ result'.key \notin DOMAIN map) =>
          /\ alive'
          /\ result'.ret = "ok"
          /\ result'.value = None]_vars

C5_Witness ==
    /\ alive
    /\ result.op = "get"
    /\ result.value = None
    /\ result.key \notin DOMAIN store
    /\ 1 \notin DOMAIN disk
    /\ \A f \in DOMAIN disk : \A i \in DOMAIN disk[f] : disk[f][i].key # result.key

\* C6: after every operation, for every segment that has a counter,
\* effective_len (len - len_garbage) is the number of index entries in that
\* segment; so the effective_len of all segments add up to the size of the
\* index.
RECURSIVE SumEffective(_, _)
SumEffective(ll, terms) ==
    IF terms = {} THEN 0
    ELSE LET t == CHOOSE x \in terms : TRUE
         IN  effective_len(ll[t]) + SumEffective(ll, terms \ {t})

C6_EffectiveLenCountsIndex ==
    alive =>
        /\ \A s \in DOMAIN log_lengths :
              effective_len(log_lengths[s]) = Cardinality(KeysIn(map, s))
        /\ SumEffective(log_lengths, DOMAIN log_lengths) = Cardinality(DOMAIN map)

C6_Witness ==
    /\ alive
    /\ \E s, t \in DOMAIN log_lengths :
          /\ s # t
          /\ log_lengths[s].len_garbage > 0
          /\ effective_len(log_lengths[s]) > 0
          /\ effective_len(log_lengths[t]) > 0
    /\ \E f \in DOMAIN disk : \E i \in DOMAIN disk[f] : disk[f][i].cmd = "Remove"

\* C7: no segment file ever holds more than MAX_NUM_COMMAND_PER_FILE
\* commands.
C7_SegmentsBounded ==
    \A f \in DOMAIN disk : Len(disk[f]) <= MAX_NUM_COMMAND_PER_FILE

C7_Witness ==
    /\ alive
    /\ \E f, g \in DOMAIN disk :
          /\ f < g
          /\ Len(disk[f]) = MAX_NUM_COMMAND_PER_FILE
          /\ Len(disk[g]) >= 2
    /\ result.op = "open"

\* The calls logged are sets of keys that differ from one another.
DistinctSets(cs) ==
    /\ \A i \in DOMAIN cs : cs[i][1] = "set"
    /\ \A i, j \in DOMAIN cs : i # j => cs[i][2] # cs[j][2]

\* C8: a set, or a remove of a key the index holds, that starts with
\* current_log_len >= MAX_NUM_COMMAND_PER_FILE moves to term + 1: a file that
\* did not exist is created with a writer, a reader and a counter that starts
\* at zero, the record count restarts at 0 and the command is written at
\* offset 0 of the new file.  So on a fresh store MAX + 1 sets of distinct keys
\* leave MAX commands in file 1 and one command in file 2.
C8_Rotation ==
    [][/\ (/\ alive
           /\ current_log_len >= MAX_NUM_COMMAND_PER_FILE
           /\ \/ result'.op = "set"
              \/ result'.op = "remove" /\ result'.key \in DOMAIN map) =>
              LET t == term + 1
                  c == IF result'.op = "set"
                       THEN SetCommand(result'.key, result'.value)
                       ELSE RemoveCommand(result'.key)
              IN  /\ result'.ret = "ok"
                  /\ alive'
                  /\ t \notin DOMAIN disk
                  /\ term' = t
                  /\ t \in DOMAIN disk'
                  /\ disk'[t] # <<>>
                  /\ disk'[t][1] = c
                  /\ writer' = [file |-> t, pos |-> FileLen(disk'[t])]
                  /\ t \in readers'
                  /\ t \in DOMAIN log_lengths'
                  /\ log_lengths'[t].len = Len(disk'[t])
                  /\ current_log_len' = Len(disk'[t])
                  /\ result'.op = "set" =>
                         map'[result'.key] =
                             [term |-> t, head |-> 0, tail |-> ByteLen(c)]
       /\ (alive' /\ DistinctSets(calls')
               /\ Len(calls') = MAX_NUM_COMMAND_PER_FILE + 1) =>
              /\ DOMAIN disk' = {1, 2}
              /\ Len(disk'[1]) = MAX_NUM_COMMAND_PER_FILE
              /\ Len(disk'[2]) = 1]_vars

C8_Witness ==
    /\ alive
    /\ DistinctSets(calls)
    /\ Len(calls) = MAX_NUM_COMMAND_PER_FILE + 1
    /\ Rotations(result) = {2}

\* The segment files a log of n commands takes when nothing is compacted.
FilesWithoutCompaction(n) ==
    (n + MAX_NUM_COMMAND_PER_FILE - 1) \div MAX_NUM_COMMAND_PER_FILE

\* What C9 says after a compaction, with `fewer_files` for what it says of
\* the number of segment files.
OverwriteCompacts(fewer_files) ==
    LET n      == Len(calls)
        latest == SetCommand("k1", calls[n][3])
    IN  /\ result.op \in {"set", "get"} => alive /\ result.ret = "ok"
        /\ alive =>
            /\ n >= 3 => 1 \notin DOMAIN disk
            /\ (result.op = "set" /\ Compactions(result) # {}) =>
                   /\ Cardinality(Places(disk)) = 1
                   /\ \A p \in Places(disk) : disk[p[1]][p[2]] = latest
                   /\ get(St, "k1") = Some(latest.value)
                   /\ Cardinality(Places(disk)) < n
                   /\ fewer_files
            /\ (n >= 1 /\ result.op = "get") => result.value = calls[n][3]
            /\ n = 11 =>
                   /\ Cardinality(Places(disk)) = 1
                   /\ \A p \in Places(disk) : disk[p[1]][p[2]] = latest

\* C9 as stated: setting one key again and again on a fresh store fires a
\* compaction; after a compaction fired by such a set the disk holds one
\* command of the key, the Set of the latest value, fewer commands and fewer
\* segment files than the calls would take without compaction, and get
\* returns the latest value; after eleven sets the one command on disk is
\* the eleventh.
C9_AsStated ==
    OverwriteCompacts(
        Cardinality(DOMAIN disk) < FilesWithoutCompaction(Len(calls)))

\* C9 amended: the same, with the number of segment files never greater than
\* without compaction, and smaller once more than MAX_NUM_COMMAND_PER_FILE
\* sets were made (after the first compaction both counts are one file).
C9_OverwriteCompacts ==
    OverwriteCompacts(
        /\ Cardinality(DOMAIN disk) <= FilesWithoutCompaction(Len(calls))
        /\ Len(calls) > MAX_NUM_COMMAND_PER_FILE =>
               Cardinality(DOMAIN disk) < FilesWithoutCompaction(Len(calls)))

C9_Witness ==
    /\ alive
    /\ Len(calls) = 11
    /\ Compactions(result) = {5}
    /\ calls[10][3] # calls[11][3]

\* C10: open ignores the entries of kvs.store/ whose name is no number.  On a
\* directory that holds nothing else it does what it does on an empty one:
\* term 1, the file 1 created, a reader and a zero counter for term 1; a set
\* made next succeeds and get returns its value.
C10_ForeignEntriesIgnored ==
    [][(result'.op = "open" /\ DOMAIN disk = {}) =>
          /\ alive'
          /\ term' = 1
          /\ DOMAIN disk' = {1}
          /\ readers' = {1}
          /\ log_lengths' = (1 :> NewLengthCount)
          /\ \A in \in SetInputs :
                \A s \in Outcomes(set(St', in[1], in[2], FirstOrder),
                               LAMBDA ord : set(St', in[1], in[2], ord)) :
                   s.err = "ok" /\ get(s, in[1]) = Some(in[2])]_vars

\* C11: a command in the middle of a segment file that does not decode makes
\* open fail: no store is returned.
C11_CorruptRecordIsFatal ==
    [][(/\ result'.op = "open"
        /\ \E p \in Corrupted(disk) : p[2] < Len(disk[p[1]])) =>
           ~alive' /\ result'.ret # "ok"]_vars

\* What the store did in the run of the command line that `r` is the result
\* of: <<"engine", result of open, result of the call, key in the index>>.
Engine(r) == r.events[1]

\* C12: `kvs rm KEY` for a key the store does not hold prints
\* "Key not found" and ends with a status that is not 0; `kvs get KEY` for
\* such a key prints "Key not found" and ends with status 0.
C12_KeyNotFoundExits ==
    /\ (result.op = "kvs rm" /\ Engine(result)[2] = "ok" /\ ~Engine(result)[4]) =>
           result.value = "Key not found" /\ result.ret # "0"
    /\ (result.op = "kvs get" /\ Engine(result)[2] = "ok" /\ ~Engine(result)[4]) =>
           result.value = "Key not found" /\ result.ret = "0"

C12_Witness ==
    /\ result.op = "kvs rm"
    /\ result.value = "Key not found"
    /\ result.ret = "1"
    /\ \E f \in DOMAIN disk : \E i \in DOMAIN disk[f] :
           disk[f][i] = RemoveCommand(result.key)

\* C13: the command line ends with status 0 only when the call of the store
\* succeeded: an error of open, set, get or remove, an io or serde error of
\* remove during `kvs rm` included, gives a status that is not 0.
C13_ExitZeroOnlyOnSuccess ==
    result.op \in {"kvs set", "kvs get", "kvs rm"} =>
        (result.ret = "0" =>
            Engine(result)[2] = "ok" /\ Engine(result)[3] = "ok")

\* C14: after open and after every operation, every index entry
\* (term, head, tail) of a key k has head < tail, the file of the term exists
\* and is at least tail bytes long, and its bytes [head, tail) are one Set
\* command of key k with the value the key has now.
C14_IndexPointsAtSet ==
    alive =>
        \A k \in DOMAIN map :
            /\ map[k].head < map[k].tail
            /\ map[k].term \in DOMAIN disk
            /\ FileLen(disk[map[k].term]) >= map[k].tail
            /\ k \in DOMAIN store
            /\ from_slice(disk[map[k].term], map[k].head, map[k].tail)
                   = SetCommand(k, store[k])

C14_Witness ==
    /\ alive
    /\ result.op = "open"
    /\ \E k, j \in DOMAIN map :
          /\ map[k].term < map[j].term
          /\ map[k].head > 0
          /\ map[j].head > 0

\* C15: after every operation the terms that have a reader, the terms that
\* have a counter and the segment files on disk are the same set.
C15_ReadersStatsFilesCoincide ==
    alive => readers = DOMAIN log_lengths /\ readers = DOMAIN disk

C15_Witness ==
    /\ alive
    /\ Compactions(result) # {}
    /\ Rotations(result) # {}
    /\ Cardinality(readers) >= 2
    /\ readers = DOMAIN disk

\* C16: after every operation the active term has a counter and
\* current_log_len is the len of that counter, also after an operation that
\* compacted the active segment and after a reopen that follows compactions.
C16_ActiveLenIsRecordCount ==
    alive =>
        /\ term \in DOMAIN log_lengths
        /\ current_log_len = log_lengths[term].len

\* C17: every counter has 0 <= len_garbage <= len, so len - len_garbage does
\* not underflow: a command is counted as garbage once at most, and no more
\* commands are counted than the file holds.
C17_GarbageWithinLen ==
    alive =>
        \A s \in DOMAIN log_lengths :
            /\ 0 <= log_lengths[s].len_garbage
            /\ log_lengths[s].len_garbage <= log_lengths[s].len
            /\ s \in DOMAIN disk => log_lengths[s].len <= Len(disk[s])

C17_Witness ==
    /\ alive
    /\ result.op = "remove"
    /\ result.ret = "ok"
    /\ \E s \in DOMAIN log_lengths :
          /\ log_lengths[s].len_garbage >= 2
          /\ log_lengths[s].len_garbage < log_lengths[s].len
          /\ \E i \in DOMAIN disk[s] : disk[s][i] = RemoveCommand(result.key)

\* The counters as the accounting of a set or remove of `key` leaves them,
\* before any compaction: the store after the rotation, the write and the
\* counting of the call.
Accounted(s0, op, key, value) ==
    LET s1 == IF log_is_full(s0) THEN break_to_new_log_file(s0) ELSE s0
    IN  IF op = "set"
        THEN set_count(to_writer(s1, SetCommand(key, value)), key).st
        ELSE remove_count(to_writer(s1, RemoveCommand(key)), key).st

\* A segment whose counter calls for compaction.
Qualifies(s, t) ==
    /\ t \in DOMAIN s.log_lengths
    /\ s.log_lengths[t].len > 0
    /\ OverThreshold(s.log_lengths[t])

\* The segments a set or remove of `key` must compact: the old segment of
\* the key when it qualifies, else the active segment when it qualifies.
MustCompact(s0, op, key, value) ==
    LET a   == Accounted(s0, op, key, value)
        old == IF key \in DOMAIN s0.map THEN {s0.map[key].term} ELSE {}
    IN  IF \E t \in old : Qualifies(a, t) THEN old
        ELSE IF Qualifies(a, a.term) THEN {a.term}
        ELSE {}

\* C18: when the accounting of a set or remove leaves the old segment of the
\* key or the active segment with len > 0 and a garbage rate above the
\* threshold, that segment is compacted within the call, the old segment
\* first when both qualify; also when only the active segment qualifies after
\* a write of a key that was absent or lived in another segment.
C18_CompactionTrigger ==
    [][(/\ alive
        /\ result'.op \in {"set", "remove"}
        /\ result'.op = "remove" => result'.key \in DOMAIN map
        /\ result'.ret = "ok") =>
           MustCompact(St, result'.op, result'.key, result'.value)
               \subseteq Compactions(result')]_vars

\* The compactions completed within the call that `r` is the result of, and
\* the compactions entered.
CompactionEvents(r) ==
    {i \in DOMAIN r.events : r.events[i][1] = "compaction"}

CompactionStarts(r) ==
    {i \in DOMAIN r.events : r.events[i][1] = "start"}

\* C19: a set or remove runs one compaction at most: the sets by which a
\* compaction writes the live commands again find the key absent, count no
\* garbage for the segment under compaction and start no compaction of their
\* own.
C19_OneCompactionPerCall ==
    result.op \in {"set", "remove"} =>
        /\ Cardinality(CompactionStarts(result)) <= 1
        /\ Cardinality(CompactionEvents(result)) <= 1
        /\ \A i \in CompactionEvents(result) :
               result.events[i][4] = result.events[i][5]

C19_Witness ==
    /\ alive
    /\ result.op = "set"
    /\ \E i \in CompactionEvents(result) :
          /\ result.events[i][3] >= 1
          /\ result.events[i][2] < term
          /\ result.events[i][5].len_garbage >= 3
          /\ Rotations(result) # {}

\* The compactions in progress after the first n events of a call, and the
\* most that were in progress at once.
RECURSIVE InProgress(_, _)
InProgress(events, n) ==
    IF n = 0 THEN 0
    ELSE InProgress(events, n - 1)
             + (CASE events[n][1] = "start" -> 1
                  [] events[n][1] = "compaction" -> -1
                  [] OTHER -> 0)

Depth(events) ==
    IF events = <<>> THEN 0
    ELSE CHOOSE d \in 0..Len(events) :
             /\ \E n \in 0..Len(events) : InProgress(events, n) = d
             /\ \A n \in 0..Len(events) : InProgress(events, n) <= d

\* C20: every set and remove comes to its end: it returns Ok or
\* KeyNotFound; a compaction writes again the live commands of one segment,
\* which are as many as the counter of the segment tells and no more than a
\* file holds; compactions do not nest beyond a bounded depth; and no
\* compaction is in progress when the call returns.  Every set and remove
\* that can be called on the store has such an end.
C20_CallsTerminate ==
    /\ result.op \in {"set", "remove"} =>
          /\ result.ret \in {"ok", "KeyNotFound"}
          /\ \A i \in CompactionEvents(result) :
                 /\ result.events[i][3] = effective_len(result.events[i][4])
                 /\ result.events[i][3] <= MAX_NUM_COMMAND_PER_FILE
          /\ Depth(result.events) <= 1
          /\ InProgress(result.events, Len(result.events)) = 0
    /\ alive =>
          /\ \A in \in SetInputs :
                 set(St, in[1], in[2], FirstOrder).err = "ok"
          /\ \A key \in Keys :
                 remove(St, key, FirstOrder).err \in {"ok", "KeyNotFound"}

C20_Witness ==
    /\ alive
    /\ result.op = "remove"
    /\ result.ret = "ok"
    /\ Depth(result.events) = 1
    /\ \E i \in CompactionEvents(result) : result.events[i][3] >= 1

\* The term a set or remove writes to, and the counter a segment has when
\* the call starts (zero for the segment a rotation is about to create).
ActiveOf(s) == IF log_is_full(s) THEN s.term + 1 ELSE s.term

CounterBefore(ll, t) == IF t \in DOMAIN ll THEN ll[t] ELSE NewLengthCount

Grown(c, dlen, dgarbage) ==
    [len |-> c.len + dlen, len_garbage |-> c.len_garbage + dgarbage]

\* C21: the counting of set(k, v), before any compaction.  A key that was
\* absent: the len of the active segment grows by 1.  A key whose command is
\* in the active segment: its len and its garbage grow by 1 each.  A key
\* whose command is in another segment: the len of the active segment and
\* the garbage of that other segment grow by 1 each.  No other counter
\* changes; so after set(k, a); set(k, b) the segment that holds a has
\* garbage >= 1.
C21_SetAccounting ==
    [][(alive /\ result'.op = "set" /\ result'.ret = "ok") =>
          LET k      == result'.key
              a      == Accounted(St, "set", k, result'.value).log_lengths
              active == ActiveOf(St)
              before(t) == CounterBefore(log_lengths, t)
              olds   == IF k \in DOMAIN map THEN {map[k].term} ELSE {}
          IN  /\ DOMAIN a = DOMAIN log_lengths \cup {active}
              /\ k \notin DOMAIN map => a[active] = Grown(before(active), 1, 0)
              /\ \A old \in olds :
                    /\ old = active => a[active] = Grown(before(active), 1, 1)
                    /\ old # active =>
                          /\ a[active] = Grown(before(active), 1, 0)
                          /\ a[old] = Grown(before(old), 0, 1)
                    /\ a[old].len_garbage >= 1
              /\ \A t \in DOMAIN a \ ({active} \cup olds) : a[t] = before(t)
              /\ CompactionStarts(result') = {} => log_lengths' = a]_vars

C21_Witness ==
    /\ alive
    /\ result.op = "set"
    /\ result.ret = "ok"
    /\ CompactionStarts(result) = {}
    /\ map[result.key].term = term
    /\ \E t \in DOMAIN log_lengths :
          /\ t < term
          /\ log_lengths[t].len_garbage >= 1
          /\ \E i \in DOMAIN disk[t] :
                 disk[t][i].cmd = "Set" /\ disk[t][i].key = result.key
    /\ log_lengths[term].len_garbage >= 1

\* C22: the counting of remove(k) for a key the index holds, before any
\* compaction.  When the Set of k is in the active segment, the len of that
\* segment grows by 1 and its garbage by 2; otherwise the len and the
\* garbage of the active segment grow by 1 each and the garbage of the
\* segment of the Set grows by 1.  current_log_len grows by 1 and k leaves
\* the index.
C22_RemoveAccounting ==
    [][(/\ alive
        /\ result'.op = "remove"
        /\ result'.key \in DOMAIN map
        /\ result'.ret = "ok") =>
          LET k      == result'.key
              a      == Accounted(St, "remove", k, None).log_lengths
              active == ActiveOf(St)
              before(t) == CounterBefore(log_lengths, t)
              old    == map[k].term
          IN  /\ DOMAIN a = DOMAIN log_lengths \cup {active}
              /\ old = active => a[active] = Grown(before(active), 1, 2)
              /\ old # active =>
                    /\ a[active] = Grown(before(active), 1, 1)
                    /\ a[old] = Grown(before(old), 0, 1)
              /\ \A t \in DOMAIN a \ {active, old} : a[t] = before(t)
              /\ k \notin DOMAIN map'
              /\ CompactionStarts(result') = {} =>
                    /\ log_lengths' = a
                    /\ current_log_len' =
                           (IF log_is_full(St) THEN 0 ELSE current_log_len) + 1]_vars

C22_Witness ==
    /\ alive
    /\ result.op = "remove"
    /\ result.ret = "ok"
    /\ CompactionStarts(result) = {}
    /\ log_lengths[term].len_garbage >= 2
    /\ \E i \in DOMAIN disk[term] :
          disk[term][i].cmd = "Set" /\ disk[term][i].key = result.key
    /\ disk[term][Len(disk[term])] = RemoveCommand(result.key)

\* C23: the counters open computes from the files are the counters the live
\* store held: when a store is dropped, opening its directory gives, for
\* every segment file, the len and the garbage the store had for it.
C23_RecoveryAccounting ==
    [][(alive /\ result'.op = "close") =>
          LET o == open(disk, foreign)
          IN  /\ o.err = "ok"
              /\ \A t \in DOMAIN disk \cap DOMAIN log_lengths :
                    /\ t \in DOMAIN o.log_lengths
                    /\ o.log_lengths[t] = log_lengths[t]]_vars

\* The directory as it was when the first n commands of file t had been
\* written and no later file existed.
Truncated(d, t, n) ==
    [f \in {g \in DOMAIN d : g <= t} |->
        IF f = t THEN SubSeq(d[f], 1, n) ELSE d[f]]

\* C24: in recovery a Remove command whose key the index does not hold at
\* that point leaves the index as it is and is counted all the same: the
\* counter of its segment gets len + 1 and garbage + 1.
C24_OrphanRemoveCounted ==
    (alive /\ result.op = "open") =>
        \A p \in Places(disk) :
            LET t      == p[1]
                before == open(Truncated(disk, t, p[2] - 1), foreign)
                after  == open(Truncated(disk, t, p[2]), foreign)
                c      == disk[t][p[2]]
            IN  (c.cmd = "Remove" /\ c.key \notin DOMAIN before.map) =>
                    /\ after.map = before.map
                    /\ after.log_lengths[t] = Grown(before.log_lengths[t], 1, 1)

\* The places of the commands of key k on disk, and the last of them in
\* ascending order of segment and, within a segment, of position.
PlacesOf(d, k) == {p \in Places(d) : d[p[1]][p[2]].key = k}

Later(p, q) == p[1] > q[1] \/ (p[1] = q[1] /\ p[2] >= q[2])

LastPlace(d, k) == CHOOSE p \in PlacesOf(d, k) : \A q \in PlacesOf(d, k) : Later(p, q)

\* The index as the fold of the commands on disk.
Fold(d) ==
    [k \in {x \in AllKeys : /\ PlacesOf(d, x) # {}
                             /\ d[LastPlace(d, x)[1]][LastPlace(d, x)[2]].cmd = "Set"}
        |-> LET p == LastPlace(d, k)
            IN  [term |-> p[1],
                 head |-> EndOffset(d[p[1]], p[2] - 1),
                 tail |-> EndOffset(d[p[1]], p[2])]]

\* C25: the index open builds is the fold of all the commands, in ascending
\* order of segment and in file order: it holds a key iff the last command of
\* the key is a Set, and the entry names the segment and the byte range of
\* that Set (head is the end of the command before it, 0 at the start of a
\* segment; tail is its own end).
C25_RecoveryIsFold ==
    (alive /\ result.op = "open") => map = Fold(disk)

\* An open over two segments that finds a key whose last command is a Remove
\* after a Set of it, a key indexed at the start of a segment and a key
\* indexed further into one.
C25_Witness ==
    /\ alive /\ result.op = "open"
    /\ Cardinality({t \in DOMAIN disk : disk[t] # <<>>}) >= 2
    /\ \E k \in Keys :
          /\ k \notin DOMAIN map
          /\ \E p, q \in PlacesOf(disk, k) :
                /\ p # q /\ Later(p, q)
                /\ disk[p[1]][p[2]].cmd = "Remove"
                /\ disk[q[1]][q[2]].cmd = "Set"
    /\ \E k \in DOMAIN map : map[k].head = 0
    /\ \E k \in DOMAIN map : map[k].head > 0

\* The commands an operation appended to the directory d0, as places of the
\* directory d1 it left.
Appended(d0, d1) ==
    {p \in Places(d1) : p[1] \in DOMAIN d0 => p[2] > Len(d0[p[1]])}

\* The place of the command a set or remove writes for itself.
OwnPlace(s) ==
    LET t == IF log_is_full(s) THEN s.term + 1 ELSE s.term
    IN  <<t, IF t \in DOMAIN s.disk THEN Len(s.disk[t]) + 1 ELSE 1>>

\* C26: a compaction appends nothing to the segment s it compacts, whether s
\* is the current segment with room left, the current segment and full, or
\* an older one: every command it writes is in a segment of greater id, the
\* index places every key it rewrote in such a segment, and once s is
\* deleted no index entry names s.
C26_CompactionLeavesSegment ==
    [][\A i \in CompactionEvents(result') :
          LET s   == result'.events[i][2]
              own == OwnPlace(St)
          IN  /\ s \notin DOMAIN disk'
              /\ \A k \in DOMAIN map' : map'[k].term # s
              /\ \A p \in Appended(disk, disk') \ {own} :
                    /\ p[1] > s
                    /\ disk'[p[1]][p[2]].cmd = "Set"
                    /\ disk'[p[1]][p[2]].key \in DOMAIN map'
                    /\ map'[disk'[p[1]][p[2]].key].term = p[1]
              /\ Cardinality(Appended(disk, disk') \ {own}) = result'.events[i][3]
      ]_vars

\* A compaction of the current segment when it is full, with a command to
\* rewrite: the rewriting set is what leaves the segment.
C26_Witness ==
    /\ alive
    /\ \E i \in CompactionEvents(result) :
          /\ result.events[i][3] >= 1
          /\ \E j \in CompactionStarts(result) :
                /\ result.events[j][2] = result.events[i][2]
                /\ result.events[j][3] = result.events[i][2]
                /\ result.events[j][4] = MAX_NUM_COMMAND_PER_FILE

CompactionBugs(r) ==
    {i \in DOMAIN r.events : r.events[i][1] = "bug"}

\* C27: the check of compaction, that the counter of the segment has as
\* many effective commands as the segment has live Sets, fails in no
\* reachable state: no call ends in the "Compaction bug" panic, whatever
\* compactions and reopens came before it.
C27_CompactionCheckPasses ==
    /\ CompactionBugs(result) = {}
    /\ \A i \in CompactionEvents(result) :
          /\ result.events[i][4].len >= result.events[i][4].len_garbage
          /\ effective_len(result.events[i][4]) = result.events[i][3]

\* A compaction of segment 2 that passed the check with a command to
\* rewrite, after the compaction that deleted segment 1 and after a reopen:
\* the store's count of the commands of segment 2 is above the counter's,
\* which only an open brings about.
C27_Witness ==
    /\ alive
    /\ 1 \notin DOMAIN disk
    /\ \E i \in CompactionEvents(result) :
          /\ result.events[i][2] = 2
          /\ result.events[i][3] >= 1
          /\ \E j \in CompactionStarts(result) :
                /\ result.events[j][2] = 2
                /\ result.events[j][3] = 2
                /\ result.events[j][4] > result.events[i][4].len

\* The call a stop cut short, run to its end from the same store.
WholeCall(r) ==
    IF r.events[Len(r.events)][3] = "set"
    THEN set(St, r.key, r.value, FirstOrder)
    ELSE remove(St, r.key, FirstOrder)

\* C28: compaction removes the counter and the file of the segment s last,
\* after every live command of s is appended to another segment and the
\* index names that segment: a compaction deletes s and no other file; up
\* to that deletion the file s is in place, and what the whole call leaves
\* is what it has at its last point, less the file s; and when the process
\* stops at any point before the deletion, the store opened next gives
\* every key that was live in s the value it had.
C28_CompactionDeletesLast ==
    [][/\ \A i \in CompactionEvents(result') :
             DOMAIN disk \ DOMAIN disk' = {result'.events[i][2]}
       /\ result'.op = "stop" =>
             LET s == calls'[1][2]
                 n == calls'[1][3]
                 w == WholeCall(result')
             IN  /\ s \in DOMAIN disk'
                 /\ DOMAIN snap' \subseteq Keys
                 /\ w.err = "ok"
                 /\ n >= 2 * Cardinality(DOMAIN snap') =>
                       /\ w.disk = Del(disk', s)
                       /\ \A k \in DOMAIN snap' :
                             /\ w.map[k].term \in DOMAIN w.disk
                             /\ get(w, k) = snap'[k]
       /\ (result.op = "stop" /\ result'.op = "open") =>
             /\ alive'
             /\ \A k \in DOMAIN snap : get(St', k) = snap[k]
      ]_vars

\* An open after the process stopped when compaction had rewritten the one
\* live command of a segment and not yet deleted the file: the key has its
\* value, and both copies of the command are on disk.
C28_Witness ==
    /\ alive
    /\ result.op = "open"
    /\ calls # <<>>
    /\ calls[1][3] >= 2 * Cardinality(DOMAIN snap)
    /\ \E k \in DOMAIN snap :
          /\ get(St, k) = snap[k]
          /\ map[k].term > calls[1][2]
          /\ \E i \in DOMAIN disk[calls[1][2]] :
                disk[calls[1][2]][i] = SetCommand(k, snap[k].value)

\* C29: get checks the command it reads: when the bytes the index entry of
\* the key names decode to a command that is no Set, or to a Set of another
\* key, get fails and does not return the value of that command.
C29_GetValidates ==
    [][(alive /\ result'.op = "get" /\ result'.key \in DOMAIN map) =>
          LET index   == map[result'.key]
              command == from_slice(disk[index.term], index.head, index.tail)
          IN  (command.cmd # "Set" \/ command.key # result'.key) =>
                  result'.ret # "ok"]_vars

\* C30: after open and after every call, writer.pos is the length in bytes
\* of the file the writer appends to (if compaction has deleted that file,
\* the next append begins a new one), and a set writes its command at that
\* position: the head the index gets is the tail of the command before it,
\* 0 in a file just begun and the length of the file found by open, and
\* the tail is the new writer.pos.
C30_WriterPos ==
    [][/\ alive' =>
             /\ writer'.file = term'
             /\ IF writer'.file \in DOMAIN disk'
                THEN writer'.pos = FileLen(disk'[writer'.file])
                ELSE log_is_full(St')
       /\ (alive /\ result'.op = "set" /\ result'.ret = "ok"
             /\ CompactionStarts(result') = {}) =>
             LET p == OwnPlace(St)
                 e == map'[result'.key]
             IN  /\ e.term = p[1]
                 /\ e.head = IF p[1] = term THEN writer.pos ELSE 0
                 /\ e.head = EndOffset(disk'[p[1]], p[2] - 1)
                 /\ e.tail = EndOffset(disk'[p[1]], p[2])
                 /\ e.tail = writer'.pos
                 /\ e.tail = e.head + ByteLen(SetCommand(result'.key, result'.value))
      ]_vars

\* A set that appended to the file an open had found with commands in it,
\* without a rotation: the counter of the file is below the number of its
\* commands, as only the counter of a store opened on it is.
C30_Witness ==
    /\ alive
    /\ result.op = "set"
    /\ result.ret = "ok"
    /\ result.events = <<>>
    /\ map[result.key].term = term
    /\ map[result.key].head > 0
    /\ map[result.key].tail = writer.pos
    /\ writer.pos = FileLen(disk[term])
    /\ log_lengths[term].len < current_log_len

\* C31: the term of the store, the id of the segment it appends to, is a
\* strictly positive integer and no file of the directory has a greater
\* id; it never decreases while the store lives; after an open that found
\* the directory not empty it is the greatest id among the files.
C31_TermIsHighest ==
    [][/\ alive' =>
             /\ term' > 0
             /\ \A f \in DOMAIN disk' : f <= term'
       /\ (alive /\ alive') => term' >= term
       /\ (alive' /\ result'.op = "open" /\ DOMAIN disk # {}) =>
             /\ term' \in DOMAIN disk
             /\ \A f \in DOMAIN disk : f <= term'
      ]_vars

C33_GetIsReadOnly ==
    [][result'.op = "get" =>
          LET again == get_at(St', calls', result'.key)
          IN  /\ alive'
              /\ map' = map
              /\ log_lengths' = log_lengths
              /\ term' = term
              /\ current_log_len' = current_log_len
              /\ disk' = disk
              /\ readers' = readers
              /\ writer' = writer
              /\ again.ret = result'.ret
              /\ again.value = result'.value
              /\ get(St, result'.key) = [ret |-> result'.ret,
                                         value |-> result'.value]]_vars

\* A get that found the reader of the key's file where an earlier get had
\* left it, not at 0 and not at the key's command, and returned the value.
C33_Witness ==
    /\ alive
    /\ result.op = "get"
    /\ result.ret = "ok"
    /\ result.value # None
    /\ result.events # <<>>
    /\ result.events[1][3] > 0
    /\ result.events[1][3] # result.events[1][4]
    /\ result.value = store[result.key]

\* C34: in sessions of set alone, with the rotations and compactions they
\* bring, the command the index holds for a key is always the last command
\* of the key in ascending order of segment and position, so that the store
\* opened after a drop returns for every key what get returned before it.
C34_SetsSurviveReopen ==
    /\ alive => map = Fold(disk)
    /\ (result.op = "open" /\ snap # EmptyMap) =>
          /\ alive
          /\ Contents(St) = snap

\* A reopen after a compaction (segment 1 is gone) that finds a key set
\* more than once in the files left, and returns what was returned before.
C34_Witness ==
    /\ alive
    /\ result.op = "open"
    /\ snap # EmptyMap
    /\ Contents(St) = snap
    /\ 1 \notin DOMAIN disk
    /\ \E k \in DOMAIN map : Cardinality(PlacesOf(disk, k)) >= 2

\* C35: after every completed call, each entry of the index names a segment
\* that has a counter and a reader, so that get finds the reader of the
\* entry and set and remove find the counter of the entry: none of the
\* calls panics.
C35_IndexHasReaderAndCounter ==
    [][/\ alive' =>
             \A k \in DOMAIN map' :
                 /\ map'[k].term \in readers'
                 /\ map'[k].term \in DOMAIN log_lengths'
       /\ result'.op \in {"get", "set", "remove"} => result'.ret # "panic"
      ]_vars

Breaks(r) == {i \in DOMAIN r.events : r.events[i][1] = "break"}

\* C36: break_to_new_log_file always begins a file that was not there: the
\* id it takes, whether set, remove or compaction calls it, in a first
\* session or after a reopen, is the id of no file of the directory, and
\* of no file begun earlier in the call; so, in every state a call leaves,
\* the next rotation gets a writer at pos 0 on an empty file, which the new
\* counter of zero matches.
C36_RotationStartsFresh ==
    [][/\ \A i \in Breaks(result') :
             /\ result'.events[i][2] \notin DOMAIN disk
             /\ \A j \in Breaks(result') :
                   j < i => result'.events[j][2] < result'.events[i][2]
       /\ alive' =>
             LET b == break_to_new_log_file(St')
             IN  /\ term' + 1 \notin DOMAIN disk'
                 /\ b.writer = [file |-> term' + 1, pos |-> 0]
                 /\ b.disk[b.term] = <<>>
                 /\ b.log_lengths[b.term] = NewLengthCount
      ]_vars

\* C37: a file whose name parses as an integer that is not strictly
\* positive, a file named 0, is no log file for open: open returns a store,
\* the one it returns for the directory without that file.
C37_FileZeroIgnored ==
    (result.op = "open" /\ 0 \in DOMAIN disk) =>
        LET o == open(Del(disk, 0), foreign)
        IN  /\ alive
            /\ result.ret = "ok"
            /\ map = o.map
            /\ term = o.term

\* C38: after every completed call, every file of the directory other than
\* the file the writer appends to holds MAX_NUM_COMMAND_PER_FILE commands
\* exactly: a file is left for a new one when it is full, or by the forced
\* rotation of its own compaction, which deletes it before the call returns.
C38_OlderSegmentsAreFull ==
    alive =>
        \A f \in DOMAIN disk \ {writer.file} :
            Len(disk[f]) = MAX_NUM_COMMAND_PER_FILE

\* A call whose compaction took the file of the current term before it was
\* full has returned: that file is deleted, and a full older file is kept.
C38_Witness ==
    /\ alive
    /\ \E i \in DOMAIN result.events :
          LET e == result.events[i]
          IN  /\ e[1] = "start"
              /\ e[2] = e[3]
              /\ e[4] < MAX_NUM_COMMAND_PER_FILE
              /\ e[2] \notin DOMAIN disk
    /\ \E f \in DOMAIN disk : f < writer.file

\* What a caller, and a look at the directory, can tell of a KvStore: what get
\* returns for each key, the counters of each file, and the files.
GetResults(s) == [k \in AllKeys |-> get(s, k)]

Observed(s) ==
    [gets |-> GetResults(s), counters |-> s.log_lengths, files |-> DOMAIN s.disk]

====
